---- MODULE Spec2Model ----
(***************************************************************************)
(* A model of kazam's battle state tracker (crate kazam-battle) and of the *)
(* types it is built from.  The tracker is the aggregate TrackedBattle;    *)
(* TrackedBattle::update applies one decoded ServerMessage to it and       *)
(* TrackedBattle::update_from_request merges a team snapshot into it.      *)
(*                                                                         *)
(* Conventions.  An Option<T> is a sequence of length at most one: None is *)
(* <<>> and Some(x) is <<x>>.  A Vec<T> is a sequence; the indices stored  *)
(* in the program's state (active_indices) are the program's 0-based       *)
(* indices, so entry i of a roster is pokemon[i + 1] here.  A panic of a   *)
(* call is recorded in the variable panicked.                              *)
(***************************************************************************)
EXTENDS Integers, Sequences, FiniteSets, TLC

VARIABLES
    battle,           \* the TrackedBattle aggregate
    prev,             \* the aggregate as it was before the last call
    last,             \* the last call: the ServerMessage (or request) applied
    panicked,         \* TRUE once a call has panicked instead of returning
    overflow_checks,  \* the build profile: TRUE when integer overflow panics
    obj,              \* unit level: the receiver of the last method call
    obj_prev,         \* unit level: the receiver before the last method call
    call,             \* unit level: the last method call and its arguments
    ret               \* unit level: what the last method call returned

vars == <<battle, prev, last, panicked, overflow_checks, obj, obj_prev, call, ret>>

trackerVars == <<battle, prev, last>>
unitVars == <<obj, obj_prev, call, ret>>

----------------------------------------------------------------------------
(* Option<T> *)

None == <<>>
Some(x) == <<x>>
IsSome(o) == o # <<>>
IsNone(o) == o = <<>>
Unwrap(o) == o[1]

----------------------------------------------------------------------------
(* i8 arithmetic.  An overflowing operation panics in a build with         *)
(* overflow checks and wraps in a build without them.                      *)

I8Min == -128
I8Max == 127
I8Modulus == 256

InI8(x) == I8Min <= x /\ x <= I8Max
WrapI8(x) == ((x - I8Min) % I8Modulus) + I8Min

I8Set == I8Min .. I8Max

\* a + b on i8: the wrapped value and whether the exact result left the type
AddI8(a, b) == [val |-> WrapI8(a + b), overflow |-> ~InI8(a + b)]
NegI8(a) == [val |-> WrapI8(0 - a), overflow |-> ~InI8(0 - a)]

\* Ord::clamp
Clamp(v, lo, hi) == IF v < lo THEN lo ELSE IF v > hi THEN hi ELSE v

----------------------------------------------------------------------------
(* StatStages (types/stats.rs) *)

MinStage == -6
MaxStage == 6

Stats == {"atk", "def", "spa", "spd", "spe", "accuracy", "evasion"}

StatStagesNew == [s \in Stats |-> 0]

StatStagesGet(st, stat) == st[stat]

\* set as it would be if it stored the value unclamped
StatStagesSetNoClamp(st, stat, value) ==
    [st EXCEPT ![stat] = value]

StatStagesSet(st, stat, value) ==
    [st EXCEPT ![stat] = Clamp(value, MinStage, MaxStage)]

\* boost: [stages, ret, panic].  current + amount is an i8 addition.
StatStagesBoost(st, stat, amount, checks) ==
    LET current == StatStagesGet(st, stat)
        sum == AddI8(current, amount)
        new_value == Clamp(sum.val, MinStage, MaxStage)
        actual_change == AddI8(new_value, 0 - current)
    IN  IF checks /\ (sum.overflow \/ actual_change.overflow)
        THEN [stages |-> st, ret |-> 0, panic |-> TRUE]
        ELSE [stages |-> StatStagesSet(st, stat, new_value),
              ret |-> actual_change.val,
              panic |-> FALSE]

\* unboost: boost(stat, -amount); -amount is an i8 negation.
StatStagesUnboost(st, stat, amount, checks) ==
    LET neg == NegI8(amount)
    IN  IF checks /\ neg.overflow
        THEN [stages |-> st, ret |-> 0, panic |-> TRUE]
        ELSE StatStagesBoost(st, stat, neg.val, checks)

StatStagesClear(st) == StatStagesNew

StatStagesClearPositive(st) == [s \in Stats |-> IF st[s] > 0 THEN 0 ELSE st[s]]

StatStagesClearNegative(st) == [s \in Stats |-> IF st[s] < 0 THEN 0 ELSE st[s]]

\* invert: (-x).clamp(-6, 6) on every stage; the negation is an i8 negation
StatStagesInvert(st, checks) ==
    IF checks /\ \E s \in Stats : NegI8(st[s]).overflow
    THEN [stages |-> st, panic |-> TRUE]
    ELSE [stages |-> [s \in Stats |-> Clamp(NegI8(st[s]).val, MinStage, MaxStage)],
          panic |-> FALSE]

StatStagesCopyFrom(st, other) == other

----------------------------------------------------------------------------
(* Status and Type (types/status.rs, types/pokemon_type.rs) *)

\* Status::from_protocol
StatusFromProtocol(s) ==
    CASE s = "brn" -> Some("Burn")
      [] s = "frz" -> Some("Freeze")
      [] s = "par" -> Some("Paralysis")
      [] s = "psn" -> Some("Poison")
      [] s = "tox" -> Some("BadPoison")
      [] s = "slp" -> Some("Sleep")
      [] OTHER -> None

Types == {"Normal", "Fire", "Water", "Electric", "Grass", "Ice", "Fighting",
          "Poison", "Ground", "Flying", "Psychic", "Bug", "Rock", "Ghost",
          "Dragon", "Dark", "Steel", "Fairy"}

\* str::to_lowercase on the type names the model feeds in
ToLowercase(s) ==
    CASE s \in {"Normal", "NORMAL"} -> "normal"
      [] s \in {"Fire", "FIRE"} -> "fire"
      [] s \in {"Water", "WATER"} -> "water"
      [] s \in {"Electric", "ELECTRIC"} -> "electric"
      [] s \in {"Grass", "GRASS"} -> "grass"
      [] s \in {"Ice", "ICE"} -> "ice"
      [] s \in {"Fighting", "FIGHTING"} -> "fighting"
      [] s \in {"Poison", "POISON"} -> "poison"
      [] s \in {"Ground", "GROUND"} -> "ground"
      [] s \in {"Flying", "FLYING"} -> "flying"
      [] s \in {"Psychic", "PSYCHIC"} -> "psychic"
      [] s \in {"Bug", "BUG"} -> "bug"
      [] s \in {"Rock", "ROCK"} -> "rock"
      [] s \in {"Ghost", "GHOST"} -> "ghost"
      [] s \in {"Dragon", "DRAGON"} -> "dragon"
      [] s \in {"Dark", "DARK"} -> "dark"
      [] s \in {"Steel", "STEEL"} -> "steel"
      [] s \in {"Fairy", "FAIRY"} -> "fairy"
      [] OTHER -> s

\* Type::from_protocol
TypeFromProtocol(s) ==
    LET l == ToLowercase(s)
    IN  CASE l = "normal" -> Some("Normal")
          [] l = "fire" -> Some("Fire")
          [] l = "water" -> Some("Water")
          [] l = "electric" -> Some("Electric")
          [] l = "grass" -> Some("Grass")
          [] l = "ice" -> Some("Ice")
          [] l = "fighting" -> Some("Fighting")
          [] l = "poison" -> Some("Poison")
          [] l = "ground" -> Some("Ground")
          [] l = "flying" -> Some("Flying")
          [] l = "psychic" -> Some("Psychic")
          [] l = "bug" -> Some("Bug")
          [] l = "rock" -> Some("Rock")
          [] l = "ghost" -> Some("Ghost")
          [] l = "dragon" -> Some("Dragon")
          [] l = "dark" -> Some("Dark")
          [] l = "steel" -> Some("Steel")
          [] l = "fairy" -> Some("Fairy")
          [] OTHER -> None

----------------------------------------------------------------------------
(* PokemonIdentity and PokemonState (types/pokemon.rs) *)

DefaultLevel == 100

\* PokemonIdentity::new
PokemonIdentityNew(species, level) ==
    [species |-> species, nickname |-> None, level |-> level,
     gender |-> None, shiny |-> FALSE]

\* PokemonIdentity::from_protocol
PokemonIdentityFromProtocol(details) ==
    [species |-> details.species,
     nickname |-> None,
     level |-> IF IsSome(details.level) THEN Unwrap(details.level) ELSE DefaultLevel,
     gender |-> details.gender,
     shiny |-> details.shiny]

\* PokemonIdentity::name / PokemonState::name
PokemonName(p) ==
    IF IsSome(p.identity.nickname) THEN Unwrap(p.identity.nickname)
    ELSE p.identity.species

InitialHp == 100

\* PokemonState::new
PokemonStateNew(species, level) ==
    [identity |-> PokemonIdentityNew(species, level),
     hp_current |-> InitialHp,
     hp_max |-> None,
     status |-> None,
     fainted |-> FALSE,
     active |-> FALSE,
     boosts |-> StatStagesNew,
     volatiles |-> {},
     base_types |-> <<>>,
     current_types |-> <<>>,
     tera_type |-> None,
     terastallized |-> FALSE,
     known_moves |-> <<>>,
     known_ability |-> None,
     known_item |-> None,
     item_consumed |-> FALSE,
     transformed |-> None,
     dynamaxed |-> FALSE,
     mega_evolved |-> FALSE]

\* PokemonState::from_protocol
PokemonStateFromProtocol(details) ==
    LET state == PokemonStateNew(
                     details.species,
                     IF IsSome(details.level) THEN Unwrap(details.level)
                     ELSE DefaultLevel)
        state1 == [state EXCEPT !.identity = PokemonIdentityFromProtocol(details)]
    IN  IF IsSome(details.tera_type)
        THEN [state1 EXCEPT !.tera_type = TypeFromProtocol(Unwrap(details.tera_type))]
        ELSE state1

\* PokemonState::from_protocol_with_name
PokemonStateFromProtocolWithName(details, name) ==
    LET state == PokemonStateFromProtocol(details)
    IN  IF name # details.species
        THEN [state EXCEPT !.identity.nickname = Some(name)]
        ELSE state

\* PokemonState::add_volatile
AddVolatile(p, v) == [p EXCEPT !.volatiles = @ \cup {v}]

\* PokemonState::remove_volatile
RemoveVolatile(p, v) == [p EXCEPT !.volatiles = @ \ {v}]

\* whether s occurs in the sequence
Contains(seq, s) == \E i \in 1..Len(seq) : seq[i] = s

\* PokemonState::record_move
RecordMove(p, move_name) ==
    IF ~Contains(p.known_moves, move_name)
    THEN [p EXCEPT !.known_moves = Append(@, move_name)]
    ELSE p

\* PokemonState::record_ability
RecordAbility(p, ability) == [p EXCEPT !.known_ability = Some(ability)]

\* PokemonState::record_item
RecordItem(p, item) == [p EXCEPT !.known_item = Some(item), !.item_consumed = FALSE]

\* PokemonState::consume_item
ConsumeItem(p) == [p EXCEPT !.item_consumed = TRUE]

\* apply_hp_status as it would be if it treated "fnt" like any other code
ApplyHpStatusFntAsCode(p, hp_status) ==
    LET p1 == [p EXCEPT !.hp_current = hp_status.current]
        p2 == IF IsSome(hp_status.max)
              THEN [p1 EXCEPT !.hp_max = Some(Unwrap(hp_status.max))]
              ELSE p1
    IN  IF IsSome(hp_status.status)
        THEN [p2 EXCEPT !.status = StatusFromProtocol(Unwrap(hp_status.status))]
        ELSE p2

\* PokemonState::apply_hp_status
ApplyHpStatus(p, hp_status) ==
    LET p1 == [p EXCEPT !.hp_current = hp_status.current]
        p2 == IF IsSome(hp_status.max)
              THEN [p1 EXCEPT !.hp_max = Some(Unwrap(hp_status.max))]
              ELSE p1
    IN  IF IsSome(hp_status.status)
        THEN IF Unwrap(hp_status.status) = "fnt"
             THEN [p2 EXCEPT !.fainted = TRUE, !.status = None]
             ELSE [p2 EXCEPT !.status = StatusFromProtocol(Unwrap(hp_status.status))]
        ELSE p2

\* on_switch_out as it would be if it forgot to reset the stages
OnSwitchOutKeepsBoosts(p) ==
    [p EXCEPT !.active = FALSE,
              !.volatiles = {},
              !.dynamaxed = FALSE,
              !.current_types = p.base_types,
              !.terastallized = FALSE]

\* on_switch_out as it would be if it also cured the status
OnSwitchOutCuresStatus(p) ==
    [p EXCEPT !.active = FALSE,
              !.boosts = StatStagesClear(@),
              !.volatiles = {},
              !.dynamaxed = FALSE,
              !.current_types = p.base_types,
              !.terastallized = FALSE,
              !.status = None]

\* PokemonState::on_switch_out
OnSwitchOut(p) ==
    [p EXCEPT !.active = FALSE,
              !.boosts = StatStagesClear(@),
              !.volatiles = {},
              !.dynamaxed = FALSE,
              !.current_types = p.base_types,
              !.terastallized = FALSE]

\* PokemonState::on_switch_in
OnSwitchIn(p) == [p EXCEPT !.active = TRUE]

----------------------------------------------------------------------------
(* SideState (types/side.rs) *)

DefaultActiveSlots == 1

\* Vec::resize(count, None)
Resize(seq, count) ==
    [i \in 1..count |-> IF i <= Len(seq) THEN seq[i] ELSE None]

\* SideState::new
SideStateNew(player, username) ==
    [player |-> player,
     username |-> username,
     pokemon |-> <<>>,
     active_indices |-> Resize(<<>>, DefaultActiveSlots),
     conditions |-> <<>>]

\* SideState::set_active_slots
SetActiveSlots(side, count) ==
    [side EXCEPT !.active_indices = Resize(@, count)]

\* the closure of find_pokemon / find_pokemon_mut: nickname-or-species match
NameMatches(p, name) == PokemonName(p) = name \/ p.identity.species = name

\* SideState::find_pokemon: the 0-based position of the first match
SideFindPokemon(side, name) ==
    LET hits == {i \in 1..Len(side.pokemon) : NameMatches(side.pokemon[i], name)}
    IN  IF hits = {} THEN None
        ELSE Some((CHOOSE i \in hits : \A j \in hits : i <= j) - 1)

\* set_active as it would be if it stored the index one too far
SetActiveOffByOne(side, slot, pokemon_index) ==
    IF slot < Len(side.active_indices)
    THEN LET old == side.active_indices[slot + 1]
             s1 == IF IsSome(old) /\ Unwrap(old) < Len(side.pokemon)
                   THEN [side EXCEPT !.pokemon[Unwrap(old) + 1] = OnSwitchOut(@)]
                   ELSE side
             s2 == [s1 EXCEPT !.active_indices[slot + 1] =
                       IF IsSome(pokemon_index) THEN Some(Unwrap(pokemon_index) + 1)
                       ELSE None]
         IN  IF IsSome(pokemon_index) /\ Unwrap(pokemon_index) < Len(s2.pokemon)
             THEN [s2 EXCEPT !.pokemon[Unwrap(pokemon_index) + 1] = OnSwitchIn(@)]
             ELSE s2
    ELSE side

\* SideState::set_active
SetActive(side, slot, pokemon_index) ==
    IF slot < Len(side.active_indices)
    THEN LET old == side.active_indices[slot + 1]
             s1 == IF IsSome(old) /\ Unwrap(old) < Len(side.pokemon)
                   THEN [side EXCEPT !.pokemon[Unwrap(old) + 1] = OnSwitchOut(@)]
                   ELSE side
             s2 == [s1 EXCEPT !.active_indices[slot + 1] = pokemon_index]
         IN  IF IsSome(pokemon_index) /\ Unwrap(pokemon_index) < Len(s2.pokemon)
             THEN [s2 EXCEPT !.pokemon[Unwrap(pokemon_index) + 1] = OnSwitchIn(@)]
             ELSE s2
    ELSE side

----------------------------------------------------------------------------
(* TrackedBattle (tracking/battle.rs) *)

Players == {"p1", "p2", "p3", "p4"}

DefaultGeneration == 9

\* FieldState::new
FieldStateNew ==
    [weather |-> None, terrain |-> None, trick_room |-> FALSE,
     magic_room |-> FALSE, wonder_room |-> FALSE, gravity |-> FALSE,
     mud_sport |-> FALSE, water_sport |-> FALSE, ion_deluge |-> FALSE,
     fairy_lock |-> FALSE]

\* TrackedBattle::new
TrackedBattleNew ==
    [game_type |-> None,
     generation |-> DefaultGeneration,
     tier |-> "",
     turn |-> 0,
     field |-> FieldStateNew,
     sides |-> [p \in Players |-> None],
     perspective |-> None,
     ended |-> FALSE,
     winner |-> None,
     tie |-> FALSE]

\* TrackedBattle::get_side
GetSide(b, player) == b.sides[player]

\* the write through the reference get_side_mut hands out
PutSide(b, player, side) == [b EXCEPT !.sides[player] = Some(side)]

\* TrackedBattle::get_or_create_side
GetOrCreateSide(b, player, username) ==
    IF IsNone(b.sides[player])
    THEN [b EXCEPT !.sides[player] = Some(SideStateNew(player, username))]
    ELSE b

\* the slot count of set_game_type's match
ActiveSlotCount(game_type) ==
    CASE game_type = "Singles" -> 1
      [] game_type = "Doubles" -> 2
      [] game_type = "Triples" -> 3
      [] game_type = "Multi" -> 2
      [] game_type = "FreeForAll" -> 1

GameTypes == {"Singles", "Doubles", "Triples", "Multi", "FreeForAll"}

\* TrackedBattle::set_game_type
SetGameType(b, game_type) ==
    [b EXCEPT !.game_type = Some(game_type),
              !.sides = [p \in Players |->
                            IF IsSome(b.sides[p])
                            THEN Some(SetActiveSlots(Unwrap(b.sides[p]),
                                                     ActiveSlotCount(game_type)))
                            ELSE None]]

\* position_to_slot
PositionToSlot(pos) ==
    CASE pos = "a" -> 0
      [] pos = "b" -> 1
      [] pos = "c" -> 2
      [] OTHER -> 0

----------------------------------------------------------------------------
(* Weather and side conditions (types/conditions.rs, types/side.rs) *)

\* s.to_lowercase().replace([' ', '-'], "") on the names the model feeds in
Normalize(s) ==
    CASE s = "RainDance" -> "raindance"
      [] s = "Rain Dance" -> "raindance"
      [] s = "SunnyDay" -> "sunnyday"
      [] s = "Sandstorm" -> "sandstorm"
      [] s = "Fog" -> "fog"
      [] s = "none" -> "none"
      [] s = "" -> ""
      [] s = "Spikes" -> "spikes"
      [] s = "Toxic Spikes" -> "toxicspikes"
      [] s = "Stealth Rock" -> "stealthrock"
      [] s = "Reflect" -> "reflect"
      [] s = "Sticky Goo" -> "stickygoo"

\* Weather::from_protocol
WeatherFromProtocol(s) ==
    LET normalized == Normalize(s)
    IN  CASE normalized \in {"sunnyday", "sun", "harshsunlight"} -> Some("Sun")
          [] normalized \in {"raindance", "rain"} -> Some("Rain")
          [] normalized \in {"sandstorm", "sand"} -> Some("Sand")
          [] normalized = "hail" -> Some("Hail")
          [] normalized = "snow" -> Some("Snow")
          [] normalized \in {"desolateland", "harshsun", "extremelyharshsunlight"} ->
                Some("HarshSun")
          [] normalized \in {"primordialsea", "heavyrain"} -> Some("HeavyRain")
          [] normalized \in {"deltastream", "strongwinds", "mysteriousaircurrent"} ->
                Some("StrongWinds")
          [] OTHER -> None

\* str::strip_prefix("move: ") on the condition names the model feeds in
StripPrefixMove(s) ==
    CASE s = "move: Toxic Spikes" -> Some("Toxic Spikes")
      [] s = "move: Stealth Rock" -> Some("Stealth Rock")
      [] OTHER -> None

\* SideCondition::from_protocol
SideConditionFromProtocol(s) ==
    LET clean == IF IsSome(StripPrefixMove(s)) THEN Unwrap(StripPrefixMove(s)) ELSE s
        normalized == Normalize(clean)
    IN  CASE normalized = "reflect" -> Some("Reflect")
          [] normalized = "lightscreen" -> Some("LightScreen")
          [] normalized = "auroraveil" -> Some("AuroraVeil")
          [] normalized = "spikes" -> Some("Spikes")
          [] normalized = "toxicspikes" -> Some("ToxicSpikes")
          [] normalized = "stealthrock" -> Some("StealthRock")
          [] normalized = "stickyweb" -> Some("StickyWeb")
          [] normalized = "tailwind" -> Some("Tailwind")
          [] normalized = "safeguard" -> Some("Safeguard")
          [] normalized = "mist" -> Some("Mist")
          [] normalized = "luckychant" -> Some("LuckyChant")
          [] normalized = "wideguard" -> Some("WideGuard")
          [] normalized = "quickguard" -> Some("QuickGuard")
          [] normalized = "matblock" -> Some("MatBlock")
          [] OTHER -> None

\* SideCondition::max_layers
MaxLayers(cond) ==
    CASE cond = "Spikes" -> 3
      [] cond = "ToxicSpikes" -> 2
      [] OTHER -> 1

\* SideConditionState::new
SideConditionStateNew == [layers |-> 1]

\* add_layer as it would be without the comparison against max_layers
AddLayerUnbounded(state, condition) ==
    [state |-> [state EXCEPT !.layers = @ + 1], ret |-> TRUE]

\* SideConditionState::add_layer: [state, ret]
AddLayer(state, condition) ==
    IF state.layers < MaxLayers(condition)
    THEN [state |-> [state EXCEPT !.layers = @ + 1], ret |-> TRUE]
    ELSE [state |-> state, ret |-> FALSE]

\* SideState::condition_layers
ConditionLayers(side, cond) ==
    IF cond \in DOMAIN side.conditions THEN side.conditions[cond].layers ELSE 0

\* SideState::add_condition: [side, ret]
AddCondition(side, cond) ==
    IF cond \in DOMAIN side.conditions
    THEN LET r == AddLayer(side.conditions[cond], cond)
         IN  [side |-> [side EXCEPT !.conditions[cond] = r.state], ret |-> r.ret]
    ELSE [side |-> [side EXCEPT !.conditions = (cond :> SideConditionStateNew) @@ @],
          ret |-> TRUE]

\* SideState::remove_condition: [side, ret]
RemoveCondition(side, cond) ==
    LET rest == DOMAIN side.conditions \ {cond}
    IN  [side |-> [side EXCEPT !.conditions =
                      IF rest = {} THEN <<>> ELSE [c \in rest |-> side.conditions[c]]],
         ret |-> cond \in DOMAIN side.conditions]

----------------------------------------------------------------------------
(* TrackedBattle::update and its helpers (tracking/updater.rs) *)

\* TrackedBattle::find_pokemon: the entry's 0-based index, if any
FindPokemon(b, pokemon) ==
    IF IsNone(GetSide(b, pokemon.player)) THEN None
    ELSE SideFindPokemon(Unwrap(GetSide(b, pokemon.player)), pokemon.name)

\* `if let Some(poke) = self.find_pokemon_mut(pokemon) { f(poke) }`:
\* F is applied to the entry the subject resolves to, if there is one
WithPokemon(b, pokemon, F(_)) ==
    LET found == FindPokemon(b, pokemon)
    IN  IF IsSome(found)
        THEN [b EXCEPT !.sides[pokemon.player][1].pokemon[Unwrap(found) + 1] = F(@)]
        ELSE b

\* the slot a switch targets: pokemon.position.map(position_to_slot).unwrap_or(0)
SwitchSlot(pokemon) ==
    IF IsSome(pokemon.position) THEN PositionToSlot(Unwrap(pokemon.position)) ELSE 0

\* TrackedBattle::handle_switch
HandleSwitch(b, pokemon, details, hp_status, is_drag) ==
    LET slot == SwitchSlot(pokemon)
        b1 == GetOrCreateSide(b, pokemon.player, "")
        side == Unwrap(b1.sides[pokemon.player])
        found == SideFindPokemon(side, pokemon.name)
        side1 == IF IsSome(found) THEN side
                 ELSE [side EXCEPT !.pokemon =
                          Append(@, PokemonStateFromProtocolWithName(details, pokemon.name))]
        poke_idx == IF IsSome(found) THEN Unwrap(found) ELSE Len(side1.pokemon) - 1
        poke == side1.pokemon[poke_idx + 1]
        poke1 == [poke EXCEPT
                    !.identity.species = details.species,
                    !.identity.level = IF IsSome(details.level)
                                       THEN Unwrap(details.level) ELSE DefaultLevel,
                    !.identity.gender = details.gender,
                    !.identity.shiny = details.shiny]
        poke2 == IF IsSome(hp_status) THEN ApplyHpStatus(poke1, Unwrap(hp_status))
                 ELSE poke1
        side2 == [side1 EXCEPT !.pokemon[poke_idx + 1] = poke2]
    IN  PutSide(b1, pokemon.player, SetActive(side2, slot, Some(poke_idx)))

\* handle_faint's assignments as they would be if fainting also reset the stages
MarkFaintedClearsBoosts(p) ==
    [p EXCEPT !.fainted = TRUE, !.hp_current = 0, !.active = FALSE,
              !.boosts = StatStagesClear(@)]

\* the three assignments of handle_faint on the entry it resolves
MarkFainted(p) == [p EXCEPT !.fainted = TRUE, !.hp_current = 0, !.active = FALSE]

\* TrackedBattle::handle_faint: [battle, panic].  active_indices[slot] = None
\* is an indexing assignment, which panics when slot is out of bounds.
HandleFaint(b, pokemon) ==
    LET b1 == WithPokemon(b, pokemon, MarkFainted)
    IN  IF IsSome(GetSide(b1, pokemon.player)) /\ IsSome(pokemon.position)
        THEN LET side == Unwrap(GetSide(b1, pokemon.player))
                 slot == PositionToSlot(Unwrap(pokemon.position))
             IN  IF slot < Len(side.active_indices)
                 THEN [battle |-> PutSide(b1, pokemon.player,
                                     [side EXCEPT !.active_indices[slot + 1] = None]),
                       panic |-> FALSE]
                 ELSE [battle |-> b1, panic |-> TRUE]
        ELSE [battle |-> b1, panic |-> FALSE]

\* a call's outcome: the aggregate it leaves and whether it panicked
Returned(b) == [battle |-> b, panic |-> FALSE]
Panicked(b) == [battle |-> b, panic |-> TRUE]

\* a stage operation that can panic, applied to the entry the subject resolves to
WithBoosts(b, pokemon, r) ==
    IF r.panic THEN Panicked(b)
    ELSE Returned(WithPokemon(b, pokemon, LAMBDA p : [p EXCEPT !.boosts = r.stages]))

\* the entry FindPokemon resolved (found is Some)
EntryAt(b, player, found) == Unwrap(b.sides[player]).pokemon[Unwrap(found) + 1]

\* ServerMessage::Boost
BoostEntry(b, pokemon, stat, amount, checks) ==
    LET found == FindPokemon(b, pokemon)
    IN  IF IsSome(found)
        THEN WithBoosts(b, pokemon,
                 StatStagesBoost(EntryAt(b, pokemon.player, found).boosts,
                                 stat, amount, checks))
        ELSE Returned(b)

\* ServerMessage::Unboost
UnboostEntry(b, pokemon, stat, amount, checks) ==
    LET found == FindPokemon(b, pokemon)
    IN  IF IsSome(found)
        THEN WithBoosts(b, pokemon,
                 StatStagesUnboost(EntryAt(b, pokemon.player, found).boosts,
                                   stat, amount, checks))
        ELSE Returned(b)

\* ServerMessage::InvertBoost
InvertEntry(b, pokemon, checks) ==
    LET found == FindPokemon(b, pokemon)
    IN  IF IsSome(found)
        THEN WithBoosts(b, pokemon,
                 StatStagesInvert(EntryAt(b, pokemon.player, found).boosts, checks))
        ELSE Returned(b)

\* the elements of a Vec
Range(seq) == {seq[i] : i \in 1..Len(seq)}

\* ServerMessage::ClearAllBoost: clears the entry behind every active index
ClearAllBoost(b) ==
    [b EXCEPT !.sides = [pl \in Players |->
        IF IsNone(b.sides[pl]) THEN None
        ELSE LET side == Unwrap(b.sides[pl])
                 targets == {Unwrap(side.active_indices[k]) + 1 :
                               k \in {j \in 1..Len(side.active_indices) :
                                        IsSome(side.active_indices[j])}}
             IN  Some([side EXCEPT !.pokemon =
                        [i \in 1..Len(side.pokemon) |->
                           IF i \in targets
                           THEN [side.pokemon[i] EXCEPT !.boosts = StatStagesClear(@)]
                           ELSE side.pokemon[i]]])]]

\* ServerMessage::CopyBoost
CopyBoost(b, source, target) ==
    LET src == FindPokemon(b, source)
    IN  IF IsSome(src)
        THEN LET boosts == EntryAt(b, source.player, src).boosts
             IN  WithPokemon(b, target,
                     LAMBDA p : [p EXCEPT !.boosts = StatStagesCopyFrom(@, boosts)])
        ELSE b

\* `for stat in stats { boosts.set(*stat, other.get(*stat)) }`
SetStagesFrom(st, other, stats) ==
    [s \in Stats |-> IF s \in Range(stats)
                     THEN Clamp(StatStagesGet(other, s), MinStage, MaxStage)
                     ELSE st[s]]

\* the SwapBoost arm as it would be if it exchanged all seven stages
SwapBoostAllStats(b, source, target, stats) ==
    LET src == FindPokemon(b, source)
        tgt == FindPokemon(b, target)
    IN  IF IsSome(src) /\ IsSome(tgt)
        THEN LET src_boosts == EntryAt(b, source.player, src).boosts
                 tgt_boosts == EntryAt(b, target.player, tgt).boosts
                 b1 == WithPokemon(b, source, LAMBDA p : [p EXCEPT !.boosts = tgt_boosts])
             IN  WithPokemon(b1, target, LAMBDA p : [p EXCEPT !.boosts = src_boosts])
        ELSE b

\* ServerMessage::SwapBoost
SwapBoost(b, source, target, stats) ==
    LET src == FindPokemon(b, source)
        tgt == FindPokemon(b, target)
    IN  IF IsSome(src) /\ IsSome(tgt)
        THEN LET src_boosts == EntryAt(b, source.player, src).boosts
                 tgt_boosts == EntryAt(b, target.player, tgt).boosts
                 b1 == WithPokemon(b, source,
                          LAMBDA p : [p EXCEPT !.boosts = SetStagesFrom(@, tgt_boosts, stats)])
             IN  WithPokemon(b1, target,
                     LAMBDA p : [p EXCEPT !.boosts = SetStagesFrom(@, src_boosts, stats)])
        ELSE b

\* Damage / Heal / SetHp: apply the snapshot, if both the entry and it exist
ApplyHpMessage(b, pokemon, hp_status) ==
    IF IsSome(hp_status)
    THEN WithPokemon(b, pokemon, LAMBDA p : ApplyHpStatus(p, Unwrap(hp_status)))
    ELSE b

\* DetailsChange / FormeChange: rewrite the species, apply the snapshot
ChangeSpecies(b, pokemon, species, hp_status) ==
    WithPokemon(b, pokemon,
        LAMBDA p : LET p1 == [p EXCEPT !.identity.species = species]
                   IN  IF IsSome(hp_status) THEN ApplyHpStatus(p1, Unwrap(hp_status))
                       ELSE p1)

\* a text whose characters the code inspects is a sequence of one-character
\* strings; Spell gives the string it spells
RECURSIVE Spell(_)
Spell(s) == IF s = <<>> THEN "" ELSE Head(s) \o Spell(Tail(s))

UppercaseLetters ==
    <<"A", "B", "C", "D", "E", "F", "G", "H", "I", "J", "K", "L", "M",
      "N", "O", "P", "Q", "R", "S", "T", "U", "V", "W", "X", "Y", "Z">>
LowercaseLetters ==
    <<"a", "b", "c", "d", "e", "f", "g", "h", "i", "j", "k", "l", "m",
      "n", "o", "p", "q", "r", "s", "t", "u", "v", "w", "x", "y", "z">>

\* char::to_lowercase on ASCII
CharToLowercase(c) ==
    IF \E i \in 1..26 : UppercaseLetters[i] = c
    THEN LowercaseLetters[CHOOSE i \in 1..26 : UppercaseLetters[i] = c]
    ELSE c

\* str::to_lowercase
StrToLowercase(s) == [i \in 1..Len(s) |-> CharToLowercase(s[i])]

\* str::replace(chars, "")
StrRemove(s, chars) == SelectSeq(s, LAMBDA c : c \notin chars)

\* str::strip_prefix
StrStripPrefix(s, prefix) ==
    IF Len(s) >= Len(prefix) /\ SubSeq(s, 1, Len(prefix)) = prefix
    THEN Some(SubSeq(s, Len(prefix) + 1, Len(s)))
    ELSE None

PrefixMove == <<"m", "o", "v", "e", ":", " ">>
PrefixAbility == <<"a", "b", "i", "l", "i", "t", "y", ":", " ">>

\* Volatile::from_protocol
VolatileFromProtocol(s) ==
    LET clean == IF IsSome(StrStripPrefix(s, PrefixMove))
                 THEN Unwrap(StrStripPrefix(s, PrefixMove))
                 ELSE IF IsSome(StrStripPrefix(s, PrefixAbility))
                      THEN Unwrap(StrStripPrefix(s, PrefixAbility))
                      ELSE s
        normalized == Spell(StrRemove(StrToLowercase(clean), {" ", "-", "'"}))
    IN  CASE normalized \in {"trapped", "meanloop", "spiderweb", "block"} ->
                "Trapped"
          [] normalized \in {"partialtrap", "bind", "wrap", "firespin", "clamp",
                               "whirlpool", "sandtomb", "magmastorm", "infestation",
                               "snaptrip"} ->
                "PartialTrap"
          [] normalized \in {"confusion", "confused"} ->
                "Confusion"
          [] normalized = "taunt" ->
                "Taunt"
          [] normalized = "encore" ->
                "Encore"
          [] normalized \in {"disable", "disabled"} ->
                "Disable"
          [] normalized = "torment" ->
                "Torment"
          [] normalized \in {"attract", "infatuation"} ->
                "Infatuation"
          [] normalized = "focusenergy" ->
                "FocusEnergy"
          [] normalized = "laserfocus" ->
                "LaserFocus"
          [] normalized = "leechseed" ->
                "LeechSeed"
          [] normalized = "curse" ->
                "Curse"
          [] normalized \in {"perishsong", "perish3", "perish2", "perish1"} ->
                "PerishSong"
          [] normalized = "nightmare" ->
                "Nightmare"
          [] normalized \in {"protect", "detect", "kingsshield", "spikyshield",
                               "banefulbunker", "obstruct", "silktrap", "burningbulwark"} ->
                "Protect"
          [] normalized = "endure" ->
                "Endure"
          [] normalized = "substitute" ->
                "Substitute"
          [] normalized \in {"fly", "bounce", "skydrop"} ->
                "Fly"
          [] normalized = "dig" ->
                "Dig"
          [] normalized = "dive" ->
                "Dive"
          [] normalized = "shadowforce" ->
                "ShadowForce"
          [] normalized = "phantomforce" ->
                "PhantomForce"
          [] normalized = "flinch" ->
                "Flinch"
          [] normalized = "yawn" ->
                "Yawn"
          [] normalized \in {"mustrecharge", "recharging"} ->
                "Recharging"
          [] normalized \in {"twoturnmove", "charging", "solarbeam", "razorwind",
                               "skullbash", "skyattack", "freezeshock", "iceburn",
                               "geomancy", "meteorbeam", "electroshot"} ->
                "Charging"
          [] normalized = "bide" ->
                "Bide"
          [] normalized = "uproar" ->
                "Uproar"
          [] normalized \in {"lockedmove", "thrash", "outrage", "petaldance"} ->
                "Thrash"
          [] normalized \in {"rollout", "iceball"} ->
                "Rollout"
          [] normalized = "magnetrise" ->
                "MagnetRise"
          [] normalized = "telekinesis" ->
                "Telekinesis"
          [] normalized = "smackdown" ->
                "Smackdown"
          [] normalized = "ingrain" ->
                "Ingrain"
          [] normalized = "aquaring" ->
                "AquaRing"
          [] normalized = "flashfire" ->
                "FlashFire"
          [] normalized = "slowstart" ->
                "SlowStart"
          [] normalized = "truant" ->
                "Truant"
          [] normalized = "unburden" ->
                "Unburden"
          [] normalized = "gastroacid" ->
                "GastroAcid"
          [] normalized = "imprison" ->
                "Imprison"
          [] normalized = "minimize" ->
                "Minimize"
          [] normalized = "defensecurl" ->
                "DefenseCurl"
          [] normalized \in {"transform", "transformed"} ->
                "Transformed"
          [] normalized = "roost" ->
                "Roost"
          [] normalized \in {"stockpile", "stockpile1", "stockpile2", "stockpile3"} ->
                "Stockpile"
          [] normalized = "helpinghand" ->
                "HelpingHand"
          [] normalized = "powertrick" ->
                "PowerTrick"
          [] normalized = "autotomize" ->
                "Autotomize"
          [] normalized = "magiccoat" ->
                "MagicCoat"
          [] normalized = "snatch" ->
                "Snatch"
          [] normalized = "destinybond" ->
                "DestinyBond"
          [] normalized = "grudge" ->
                "Grudge"
          [] normalized = "rage" ->
                "Rage"
          [] normalized = "focuspunch" ->
                "FocusPunch"
          [] normalized = "mudsport" ->
                "MudSport"
          [] normalized = "watersport" ->
                "WaterSport"
          [] normalized = "electrify" ->
                "Electrify"
          [] normalized \in {"followme", "ragepowder", "centerofattention", "spotlight"} ->
                "CenterOfAttention"
          [] normalized \in {"dynamax", "dynamaxed"} ->
                "Dynamaxed"
          [] normalized = "octolock" ->
                "Octolock"
          [] normalized = "tarshot" ->
                "TarShot"
          [] normalized = "noretreat" ->
                "NoRetreat"
          [] normalized \in {"terastallized", "tera"} ->
                "Terastallized"
          [] normalized = "saltcure" ->
                "SaltCure"
          [] OTHER -> "Other(" \o Spell(s) \o ")"

\* ServerMessage::VolatileStart
VolatileStart(b, pokemon, effect) ==
    WithPokemon(b, pokemon, LAMBDA p : AddVolatile(p, VolatileFromProtocol(effect)))

\* ServerMessage::VolatileEnd
VolatileEnd(b, pokemon, effect) ==
    WithPokemon(b, pokemon, LAMBDA p : RemoveVolatile(p, VolatileFromProtocol(effect)))

\* the EndAbility arm as it would be if suppression also forgot the ability
EndAbilityForgets(b, pokemon) ==
    WithPokemon(b, pokemon,
        LAMBDA p : [AddVolatile(p, "GastroAcid") EXCEPT !.known_ability = None])

\* ServerMessage::EndAbility: the ability is suppressed
EndAbility(b, pokemon) ==
    WithPokemon(b, pokemon, LAMBDA p : AddVolatile(p, "GastroAcid"))

\* ServerMessage::CureTeam
CureTeam(b, pokemon) ==
    IF IsSome(GetSide(b, pokemon.player))
    THEN LET side == Unwrap(GetSide(b, pokemon.player))
         IN  PutSide(b, pokemon.player,
                 [side EXCEPT !.pokemon =
                     [i \in 1..Len(side.pokemon) |-> [side.pokemon[i] EXCEPT !.status = None]]])
    ELSE b

\* the Weather arm as it would be if it did not look at the upkeep tag
SetWeatherOnUpkeep(b, weather, upkeep) ==
    IF weather = "none" \/ weather = ""
    THEN [b EXCEPT !.field.weather = None]
    ELSE [b EXCEPT !.field.weather = WeatherFromProtocol(weather)]

\* ServerMessage::Weather
SetWeather(b, weather, upkeep) ==
    IF ~upkeep
    THEN IF weather = "none" \/ weather = ""
         THEN [b EXCEPT !.field.weather = None]
         ELSE [b EXCEPT !.field.weather = WeatherFromProtocol(weather)]
    ELSE b

\* ServerMessage::SideStart
SideStart(b, side, condition) ==
    IF IsSome(GetSide(b, side.player)) /\ IsSome(SideConditionFromProtocol(condition))
    THEN PutSide(b, side.player,
             AddCondition(Unwrap(GetSide(b, side.player)),
                          Unwrap(SideConditionFromProtocol(condition))).side)
    ELSE b

\* ServerMessage::SideEnd
SideEnd(b, side, condition) ==
    IF IsSome(GetSide(b, side.player)) /\ IsSome(SideConditionFromProtocol(condition))
    THEN PutSide(b, side.player,
             RemoveCondition(Unwrap(GetSide(b, side.player)),
                             Unwrap(SideConditionFromProtocol(condition))).side)
    ELSE b

\* the SwapSideConditions arm as it would be if it only copied P2's mapping to P1
SwapSideConditionsOneWay(b) ==
    IF IsSome(GetSide(b, "p1")) /\ IsSome(GetSide(b, "p2"))
    THEN PutSide(b, "p1", [Unwrap(GetSide(b, "p1")) EXCEPT
                              !.conditions = Unwrap(GetSide(b, "p2")).conditions])
    ELSE b

\* ServerMessage::SwapSideConditions
SwapSideConditions(b) ==
    IF IsSome(GetSide(b, "p1")) /\ IsSome(GetSide(b, "p2"))
    THEN LET c1 == Unwrap(GetSide(b, "p1")).conditions
             c2 == Unwrap(GetSide(b, "p2")).conditions
             b1 == PutSide(b, "p1", [Unwrap(GetSide(b, "p1")) EXCEPT !.conditions = c2])
         IN  PutSide(b1, "p2", [Unwrap(GetSide(b1, "p2")) EXCEPT !.conditions = c1])
    ELSE b

\* the arms of update's match that are documented as changing nothing
IgnoredKinds ==
    {"Crit", "SuperEffective", "Resisted", "Immune", "Miss", "Fail", "Block",
     "NoTarget", "Cant", "Upkeep", "Request", "Inactive", "InactiveOff",
     "BattleStart", "ClearPoke", "Poke", "TeamPreview", "Rated", "Rule",
     "Primal", "Swap", "Replace"}

\* the `_ =>` arm: messages that are not battle messages
NonBattleKinds ==
    {"Raw", "Chat", "Join", "Leave", "Html", "Popup", "Title", "Challstr",
     "UpdateUser", "Init", "Users", "Pm", "NameTaken", "Timestamp", "Uhtml"}

\* the ignored arm as it would be if upkeep advanced the turn counter
IgnoredArmCountsUpkeep(b, msg) ==
    IF msg.kind = "Upkeep" THEN [b EXCEPT !.turn = @ + 1] ELSE b

\* the body of the ignored arm and of the `_ =>` arm: a comment, no statement
IgnoredArm(b, msg) == b

\* TrackedBattle::update: [battle, panic]
Update(b, msg, checks) ==
    CASE msg.kind = "BattlePlayer" ->
            Returned(GetOrCreateSide(b, msg.player, msg.username))
      [] msg.kind = "TeamSize" -> Returned(b)
      [] msg.kind = "GameType" -> Returned(SetGameType(b, msg.game_type))
      [] msg.kind = "Gen" -> Returned([b EXCEPT !.generation = msg.generation])
      [] msg.kind = "Tier" -> Returned([b EXCEPT !.tier = msg.tier])
      [] msg.kind = "Turn" -> Returned([b EXCEPT !.turn = msg.turn])
      [] msg.kind = "Switch" ->
            Returned(HandleSwitch(b, msg.pokemon, msg.details, msg.hp_status, FALSE))
      [] msg.kind = "Drag" ->
            Returned(HandleSwitch(b, msg.pokemon, msg.details, msg.hp_status, TRUE))
      [] msg.kind = "Faint" -> HandleFaint(b, msg.pokemon)
      [] msg.kind = "Move" ->
            Returned(WithPokemon(b, msg.pokemon, LAMBDA p : RecordMove(p, msg.move_name)))
      [] msg.kind \in {"Damage", "Heal", "SetHp"} ->
            Returned(ApplyHpMessage(b, msg.pokemon, msg.hp_status))
      [] msg.kind = "Status" ->
            Returned(WithPokemon(b, msg.pokemon,
                LAMBDA p : [p EXCEPT !.status = StatusFromProtocol(msg.status)]))
      [] msg.kind = "CureStatus" ->
            Returned(WithPokemon(b, msg.pokemon, LAMBDA p : [p EXCEPT !.status = None]))
      [] msg.kind = "CureTeam" -> Returned(CureTeam(b, msg.pokemon))
      [] msg.kind = "Boost" -> BoostEntry(b, msg.pokemon, msg.stat, msg.amount, checks)
      [] msg.kind = "Unboost" -> UnboostEntry(b, msg.pokemon, msg.stat, msg.amount, checks)
      [] msg.kind = "SetBoost" ->
            Returned(WithPokemon(b, msg.pokemon,
                LAMBDA p : [p EXCEPT !.boosts = StatStagesSet(@, msg.stat, msg.amount)]))
      [] msg.kind = "ClearBoost" ->
            Returned(WithPokemon(b, msg.pokemon,
                LAMBDA p : [p EXCEPT !.boosts = StatStagesClear(@)]))
      [] msg.kind = "ClearAllBoost" -> Returned(ClearAllBoost(b))
      [] msg.kind = "InvertBoost" -> InvertEntry(b, msg.pokemon, checks)
      [] msg.kind = "ClearPositiveBoost" ->
            Returned(WithPokemon(b, msg.target,
                LAMBDA p : [p EXCEPT !.boosts = StatStagesClearPositive(@)]))
      [] msg.kind = "ClearNegativeBoost" ->
            Returned(WithPokemon(b, msg.pokemon,
                LAMBDA p : [p EXCEPT !.boosts = StatStagesClearNegative(@)]))
      [] msg.kind = "CopyBoost" -> Returned(CopyBoost(b, msg.source, msg.target))
      [] msg.kind = "SwapBoost" ->
            Returned(SwapBoost(b, msg.source, msg.target, msg.stats))
      [] msg.kind = "Weather" -> Returned(SetWeather(b, msg.weather, msg.upkeep))
      [] msg.kind = "SideStart" -> Returned(SideStart(b, msg.side, msg.condition))
      [] msg.kind = "SideEnd" -> Returned(SideEnd(b, msg.side, msg.condition))
      [] msg.kind = "SwapSideConditions" -> Returned(SwapSideConditions(b))
      [] msg.kind = "Item" ->
            Returned(WithPokemon(b, msg.pokemon, LAMBDA p : RecordItem(p, msg.item)))
      [] msg.kind = "EndItem" -> Returned(WithPokemon(b, msg.pokemon, ConsumeItem))
      [] msg.kind = "Ability" ->
            Returned(WithPokemon(b, msg.pokemon, LAMBDA p : RecordAbility(p, msg.ability)))
      [] msg.kind = "EndAbility" -> Returned(EndAbility(b, msg.pokemon))
      [] msg.kind = "VolatileStart" ->
            Returned(VolatileStart(b, msg.pokemon, msg.effect))
      [] msg.kind = "VolatileEnd" ->
            Returned(VolatileEnd(b, msg.pokemon, msg.effect))
      [] msg.kind = "Transform" ->
            Returned(WithPokemon(b, msg.pokemon,
                LAMBDA p : AddVolatile([p EXCEPT !.transformed = Some(msg.species)],
                                       "Transformed")))
      [] msg.kind = "Mega" ->
            Returned(WithPokemon(b, msg.pokemon, LAMBDA p : [p EXCEPT !.mega_evolved = TRUE]))
      [] msg.kind = "DetailsChange" ->
            Returned(ChangeSpecies(b, msg.pokemon, msg.details.species, msg.hp_status))
      [] msg.kind = "FormeChange" ->
            Returned(ChangeSpecies(b, msg.pokemon, msg.species, msg.hp_status))
      [] msg.kind = "Win" ->
            Returned([b EXCEPT !.ended = TRUE, !.winner = Some(msg.winner)])
      [] msg.kind = "Tie" -> Returned([b EXCEPT !.ended = TRUE, !.tie = TRUE])
      [] msg.kind \in IgnoredKinds -> Returned(IgnoredArm(b, msg))
      [] msg.kind \in NonBattleKinds -> Returned(IgnoredArm(b, msg))

----------------------------------------------------------------------------
(* BattleRequest side payload (protocol/src/server/request.rs,             *)
(* protocol/src/server/battle.rs).  The strings of the payload are held    *)
(* by the pieces the code splits them into: ident by its ": " pieces,      *)
(* details by its ", " pieces, condition by the "/" pieces of its first    *)
(* whitespace token (hp) and its remaining whitespace tokens (rest).       *)

\* str::parse::<u32> / ::<u8> on the numerals the model feeds in
ParseNumber(str) ==
    CASE str = "0" -> Some(0)
      [] str = "1" -> Some(1)
      [] str = "50" -> Some(50)
      [] str = "75" -> Some(75)
      [] str = "100" -> Some(100)
      [] OTHER -> None

\* str::strip_prefix('L') on the tokens the model feeds in
StripPrefixL(tok) ==
    CASE tok = "L1" -> Some("1")
      [] tok = "L50" -> Some("50")
      [] tok = "L100" -> Some("100")
      [] tok = "Lx" -> Some("x")
      [] OTHER -> None

\* str::strip_prefix("tera:") on the tokens the model feeds in
StripPrefixTera(tok) ==
    CASE tok = "tera:Fire" -> Some("Fire")
      [] tok = "tera:Water" -> Some("Water")
      [] OTHER -> None

\* Player::parse
PlayerParse(str) == IF str \in Players THEN Some(str) ELSE None

\* the last index in 2..Len(parts) whose token satisfies Is, or 0
LastIndex(parts, Is(_)) ==
    LET hits == {i \in 2..Len(parts) : Is(parts[i])}
    IN  IF hits = {} THEN 0 ELSE CHOOSE i \in hits : \A j \in hits : j <= i

\* PokemonDetails::parse over the ", " pieces of the string
PokemonDetailsParse(parts) ==
    LET IsLevel(tok) == IsSome(StripPrefixL(tok))
        IsGender(tok) == ~IsLevel(tok) /\ tok \in {"M", "F"}
        IsShiny(tok) == ~IsLevel(tok) /\ tok = "shiny"
        IsTera(tok) == ~IsLevel(tok) /\ tok \notin {"M", "F", "shiny"}
                          /\ IsSome(StripPrefixTera(tok))
        lv == LastIndex(parts, IsLevel)
        gd == LastIndex(parts, IsGender)
        tr == LastIndex(parts, IsTera)
    IN  [species |-> IF Len(parts) > 0 THEN parts[1] ELSE "",
         level |-> IF lv = 0 THEN None ELSE ParseNumber(Unwrap(StripPrefixL(parts[lv]))),
         gender |-> IF gd = 0 THEN None ELSE Some(parts[gd]),
         shiny |-> LastIndex(parts, IsShiny) # 0,
         tera_type |-> IF tr = 0 THEN None ELSE StripPrefixTera(parts[tr])]

\* SidePokemon::hp
RequestHp(req_poke) ==
    LET hp == req_poke.condition.hp
    IN  IF Len(hp) = 2 /\ IsSome(ParseNumber(hp[1])) /\ IsSome(ParseNumber(hp[2]))
        THEN Some(<<Unwrap(ParseNumber(hp[1])), Unwrap(ParseNumber(hp[2]))>>)
        ELSE None

\* SidePokemon::status
RequestStatus(req_poke) ==
    IF Len(req_poke.condition.rest) >= 1 THEN Some(req_poke.condition.rest[1]) ELSE None

\* the entry update_from_request pushes for a payload Pokemon past the roster's end
RequestNewEntry(req_poke) ==
    LET details == PokemonDetailsParse(req_poke.details)
        \* PokemonState::new(&req_poke.details, 100) is given the whole string;
        \* its species is overwritten by the parsed one right away
        poke0 == PokemonStateNew(details.species, DefaultLevel)
        poke1 == [poke0 EXCEPT
                    !.identity.species = details.species,
                    !.identity.level = IF IsSome(details.level)
                                       THEN Unwrap(details.level) ELSE DefaultLevel,
                    !.identity.gender = details.gender,
                    !.identity.shiny = details.shiny]
        poke2 == IF Len(req_poke.ident) >= 2 /\ req_poke.ident[2] # poke1.identity.species
                 THEN [poke1 EXCEPT !.identity.nickname = Some(req_poke.ident[2])]
                 ELSE poke1
        poke3 == [poke2 EXCEPT
                    !.known_moves = req_poke.moves,
                    !.known_ability = Some(req_poke.ability),
                    !.known_item = IF req_poke.item = "" THEN None ELSE Some(req_poke.item),
                    !.active = req_poke.active]
        hp == RequestHp(req_poke)
        poke4 == IF IsSome(hp)
                 THEN [poke3 EXCEPT !.hp_current = Unwrap(hp)[1],
                                    !.hp_max = Some(Unwrap(hp)[2])]
                 ELSE poke3
        st == RequestStatus(req_poke)
    IN  IF IsSome(st)
        THEN [poke4 EXCEPT !.status = StatusFromProtocol(Unwrap(st)),
                           !.fainted = IF Unwrap(st) = "fnt" THEN TRUE ELSE @]
        ELSE poke4

\* the overwrite update_from_request does on the roster entry at the payload's index
RequestMergeEntry(poke, req_poke) ==
    LET poke1 == [poke EXCEPT
                    !.known_moves = req_poke.moves,
                    !.known_ability = Some(req_poke.ability),
                    !.known_item = IF req_poke.item = "" THEN None ELSE Some(req_poke.item),
                    !.active = req_poke.active]
        hp == RequestHp(req_poke)
        poke2 == IF IsSome(hp)
                 THEN [poke1 EXCEPT !.hp_current = Unwrap(hp)[1],
                                    !.hp_max = Some(Unwrap(hp)[2])]
                 ELSE poke1
        st == RequestStatus(req_poke)
    IN  IF IsSome(st)
        THEN IF Unwrap(st) = "fnt"
             THEN [poke2 EXCEPT !.fainted = TRUE, !.status = None]
             ELSE [poke2 EXCEPT !.status = StatusFromProtocol(Unwrap(st))]
        ELSE [poke2 EXCEPT !.status = None, !.fainted = (poke2.hp_current = 0)]

\* the loop of update_from_request over the payload, from payload index i (1-based)
RECURSIVE RequestSync(_, _, _)
RequestSync(side, team, i) ==
    IF i > Len(team) THEN side
    ELSE RequestSync(
             IF i - 1 >= Len(side.pokemon)
             THEN [side EXCEPT !.pokemon = Append(@, RequestNewEntry(team[i]))]
             ELSE [side EXCEPT !.pokemon[i] = RequestMergeEntry(@, team[i])],
             team, i + 1)

\* TrackedBattle::update_from_request
UpdateFromRequest(b, request) ==
    IF IsSome(request.side) /\ IsSome(PlayerParse(Unwrap(request.side).id))
    THEN LET side_info == Unwrap(request.side)
             player == Unwrap(PlayerParse(side_info.id))
             b1 == [b EXCEPT !.perspective = Some(player)]
             b2 == GetOrCreateSide(b1, player, side_info.name)
         IN  PutSide(b2, player,
                 RequestSync(Unwrap(b2.sides[player]), side_info.pokemon, 1))
    ELSE b

----------------------------------------------------------------------------
(* The wire decoder (protocol/src/server).  A line is held by the pieces   *)
(* str::split('|') cuts it into (fields), with two flags for whitespace    *)
(* before its first and after its last character; a text that may contain  *)
(* '|' is held the same way.  A field is an atomic string: what the code   *)
(* does inside a field (split_once, strip_prefix, parse) is tabulated over *)
(* the fields the model feeds in.                                          *)

\* the string with the given '|' pieces and no surrounding whitespace
Str(fields) == [lead |-> FALSE, fields |-> fields, trail |-> FALSE]

\* str::trim
Trim(line) == [line EXCEPT !.lead = FALSE, !.trail = FALSE]

\* str::is_empty
IsEmptyStr(s) == s.fields = <<"">> /\ ~s.lead /\ ~s.trail

\* str::starts_with('|') on a trimmed line
StartsWithPipe(line) == Len(line.fields) >= 2 /\ line.fields[1] = ""

\* parts[from..].join("|") as it would be if only the first field were taken
JoinFirstOnly(parts, from) == Str(<<parts[from + 1]>>)

\* parts[from..].join("|"), from 0-based
Join(parts, from) == Str(SubSeq(parts, from + 1, Len(parts)))

\* parts.get(i) with a default, i 0-based
GetOr(parts, i, default) == IF i < Len(parts) THEN parts[i + 1] ELSE default

\* Result::Ok / Result::Err
Ok(msg) == [ok |-> TRUE, msg |-> msg]
Err(e) == [ok |-> FALSE, err |-> e]

\* str::split_once(": ") on the subjects the model feeds in
SplitOnceColonSpace(s) ==
    CASE s = "p1a: Pikachu" -> Some(<<"p1a", "Pikachu">>)
      [] s = "p1b: Pikachu" -> Some(<<"p1b", "Pikachu">>)
      [] s = "p1: Pikachu" -> Some(<<"p1", "Pikachu">>)
      [] s = "p2a: Type: Null" -> Some(<<"p2a", "Type: Null">>)
      [] s = "p1z: Pikachu" -> Some(<<"p1z", "Pikachu">>)
      [] s = "p1ab: Pikachu" -> Some(<<"p1ab", "Pikachu">>)
      [] s = "p5a: Pikachu" -> Some(<<"p5a", "Pikachu">>)
      [] s = "a: Pikachu" -> Some(<<"a", "Pikachu">>)
      [] OTHER -> None

\* str::chars on the seat-and-slot prefixes the model feeds in
Chars(s) ==
    CASE s = "p1a" -> <<"p", "1", "a">>
      [] s = "p1b" -> <<"p", "1", "b">>
      [] s = "p1" -> <<"p", "1">>
      [] s = "p2a" -> <<"p", "2", "a">>
      [] s = "p1z" -> <<"p", "1", "z">>
      [] s = "p1ab" -> <<"p", "1", "a", "b">>
      [] s = "p5a" -> <<"p", "5", "a">>
      [] s = "a" -> <<"a">>

\* str::starts_with("pN")
StartsWithSeat(s, digit) ==
    Len(Chars(s)) >= 2 /\ Chars(s)[1] = "p" /\ Chars(s)[2] = digit

\* str::chars().nth(n), n 0-based
Nth(s, n) == IF n < Len(Chars(s)) THEN Some(Chars(s)[n + 1]) ELSE None

\* Pokemon::parse
PokemonParse(s) ==
    LET cut == SplitOnceColonSpace(s)
    IN  IF IsNone(cut) THEN None
        ELSE LET pos_part == Unwrap(cut)[1]
                 name == Unwrap(cut)[2]
                 seat == IF StartsWithSeat(pos_part, "1") THEN Some("p1")
                         ELSE IF StartsWithSeat(pos_part, "2") THEN Some("p2")
                         ELSE IF StartsWithSeat(pos_part, "3") THEN Some("p3")
                         ELSE IF StartsWithSeat(pos_part, "4") THEN Some("p4")
                         ELSE None
             IN  IF IsSome(seat)
                 THEN Some([player |-> Unwrap(seat),
                            position |-> Nth(pos_part, 2),
                            name |-> name])
                 ELSE None

\* str::split(", ") on the details the model feeds in
SplitCommaSpace(s) ==
    CASE s = "Pikachu, L50" -> <<"Pikachu", "L50">>
      [] OTHER -> <<s>>

\* str::split_whitespace on the HP fields the model feeds in
SplitWhitespace(s) ==
    CASE s = "" -> <<>>
      [] s = "0 fnt" -> <<"0", "fnt">>
      [] s = "50/100 par" -> <<"50/100", "par">>
      [] OTHER -> <<s>>

\* str::split_once('/') on the HP tokens the model feeds in
SplitOnceSlash(s) ==
    CASE s = "100/100" -> Some(<<"100", "100">>)
      [] s = "50/100" -> Some(<<"50", "100">>)
      [] s = "x/100" -> Some(<<"x", "100">>)
      [] OTHER -> None

\* HpStatus::parse
HpStatusParse(s) ==
    LET parts == SplitWhitespace(s)
    IN  IF Len(parts) = 0 THEN None
        ELSE LET hp_part == parts[1]
                 status == IF Len(parts) >= 2 THEN Some(parts[2]) ELSE None
                 cut == SplitOnceSlash(hp_part)
             IN  IF IsSome(cut)
                 THEN IF IsSome(ParseNumber(Unwrap(cut)[1]))
                         /\ IsSome(ParseNumber(Unwrap(cut)[2]))
                      THEN Some([current |-> Unwrap(ParseNumber(Unwrap(cut)[1])),
                                 max |-> Some(Unwrap(ParseNumber(Unwrap(cut)[2]))),
                                 status |-> status])
                      ELSE None
                 ELSE IF IsSome(ParseNumber(hp_part))
                      THEN Some([current |-> Unwrap(ParseNumber(hp_part)),
                                 max |-> None,
                                 status |-> status])
                      ELSE None

\* Stat::parse
StatParse(s) == IF s \in Stats THEN Some(s) ELSE None

\* str::parse::<i8> on the amounts the model feeds in
ParseI8(s) ==
    CASE s = "1" -> Some(1)
      [] s = "2" -> Some(2)
      [] s = "127" -> Some(127)
      [] s = "-128" -> Some(-128)
      [] OTHER -> None

\* GameType::parse
GameTypeParse(s) ==
    CASE s = "singles" -> Some("Singles")
      [] s = "doubles" -> Some("Doubles")
      [] s = "triples" -> Some("Triples")
      [] s = "multi" -> Some("Multi")
      [] s = "freeforall" -> Some("FreeForAll")
      [] OTHER -> None

\* Side::parse on the side fields the model feeds in
SideParse(s) ==
    CASE s \in {"p1", "p1: Alice"} -> Some([player |-> "p1", raw |-> s])
      [] s \in {"p2", "p2: Bob"} -> Some([player |-> "p2", raw |-> s])
      [] OTHER -> None

\* User::parse on the user fields the model feeds in
UserParse(s) ==
    CASE s = " Alice" -> Some([rank |-> " ", username |-> "Alice", away |-> FALSE])
      [] s = "+Bob" -> Some([rank |-> "+", username |-> "Bob", away |-> FALSE])
      [] s = "" -> None

\* str::parse::<i64> on the timestamps the model feeds in
ParseI64(s) ==
    CASE s = "1700000000" -> Some(1700000000)
      [] OTHER -> None

\* serde_json::from_str on the payloads the model feeds in: is it JSON
IsJson(s) == s \in {"{}", "null"}

\* parse_pokemon: the subject at parts[index], or nothing
ParsePokemonAt(parts, index) ==
    IF index < Len(parts) THEN PokemonParse(parts[index + 1]) ELSE None

\* parse_details
ParseDetailsAt(parts, index) ==
    IF index < Len(parts)
    THEN PokemonDetailsParse(SplitCommaSpace(parts[index + 1]))
    ELSE [species |-> "", level |-> None, gender |-> None,
          shiny |-> FALSE, tera_type |-> None]

\* parse_hp_status
ParseHpStatusAt(parts, index) ==
    IF index < Len(parts) THEN HpStatusParse(parts[index + 1]) ELSE None

\* the verbs of parse_server_message's match
DispatchTable ==
    {"challstr", "updateuser", "nametaken", "popup", "pm", "usercount", "formats",
     "updatesearch", "updatechallenges",
     "join", "j", "J", "leave", "l", "L", "init", "title", "users", "chat", "c",
     "c:", ":", "battle", "b", "notify", "name", "n", "N", "html", "uhtml",
     "uhtmlchange",
     "player", "teamsize", "gametype", "gen", "tier", "rated", "rule", "clearpoke",
     "poke", "teampreview", "start",
     "request", "inactive", "inactiveoff", "upkeep", "turn", "win", "tie",
     "move", "switch", "drag", "detailschange", "replace", "swap", "cant", "faint",
     "-formechange", "-fail", "-block", "-notarget", "-miss", "-damage", "-heal",
     "-sethp", "-status", "-curestatus", "-cureteam", "-boost", "-unboost",
     "-setboost", "-swapboost", "-invertboost", "-clearboost", "-clearallboost",
     "-clearpositiveboost", "-clearnegativeboost", "-copyboost", "-weather",
     "-fieldstart", "-fieldend", "-sidestart", "-sideend", "-swapsideconditions",
     "-start", "-end", "-crit", "-supereffective", "-resisted", "-immune", "-item",
     "-enditem", "-ability", "-endability", "-transform", "-mega", "-primal",
     "-burst", "-zpower", "-zbroken", "-activate", "-hint", "-center", "-message",
     "-combine", "-waiting", "-prepare", "-mustrecharge", "-nothing", "-hitcount",
     "-singlemove", "-singleturn"}

\* global::parse_challstr
ParseChallstr(parts) ==
    IF Len(parts) < 3 THEN Err("MissingField")
    ELSE IF IsEmptyStr(Join(parts, 2)) THEN Err("InvalidFormat")
    ELSE Ok([kind |-> "Challstr", text |-> Join(parts, 2)])

\* global::parse_popup
ParsePopup(parts) ==
    IF Len(parts) < 3 THEN Err("MissingField")
    ELSE Ok([kind |-> "Popup", text |-> Join(parts, 2)])

\* room::parse_title
ParseTitle(parts) ==
    IF Len(parts) < 3 THEN Err("MissingField")
    ELSE Ok([kind |-> "Title", text |-> Join(parts, 2)])

\* room::parse_html
ParseHtml(parts) ==
    IF Len(parts) < 3 THEN Err("MissingField")
    ELSE Ok([kind |-> "Html", text |-> Join(parts, 2)])

\* room::parse_uhtml
ParseUhtml(parts) ==
    IF Len(parts) < 4 THEN Err("MissingField")
    ELSE Ok([kind |-> "Uhtml", name |-> parts[3], html |-> Join(parts, 3)])

\* room::parse_chat
ParseChat(parts, timestamp) ==
    IF Len(parts) < 4 THEN Err("MissingField")
    ELSE IF IsNone(UserParse(parts[3])) THEN Err("InvalidFormat")
    ELSE Ok([kind |-> "Chat", user |-> Unwrap(UserParse(parts[3])),
             message |-> Join(parts, 3), timestamp |-> timestamp])

\* room::parse_timestamped_chat
ParseTimestampedChat(parts) ==
    IF Len(parts) < 5 THEN Err("MissingField")
    ELSE IF IsNone(ParseI64(parts[3])) THEN Err("InvalidFormat")
    ELSE IF IsNone(UserParse(parts[4])) THEN Err("InvalidFormat")
    ELSE Ok([kind |-> "Chat", user |-> Unwrap(UserParse(parts[4])),
             message |-> Join(parts, 4), timestamp |-> ParseI64(parts[3])])

\* battle_init::parse_player
ParsePlayer(parts) ==
    IF Len(parts) > 2 /\ IsSome(PlayerParse(parts[3]))
    THEN Ok([kind |-> "BattlePlayer",
             player |-> Unwrap(PlayerParse(parts[3])),
             username |-> GetOr(parts, 3, ""),
             avatar |-> GetOr(parts, 4, ""),
             rating |-> IF 5 < Len(parts) THEN ParseNumber(parts[6]) ELSE None])
    ELSE Err("Missing player")

\* battle_init::parse_gametype
ParseGametype(parts) ==
    IF Len(parts) > 2 /\ IsSome(GameTypeParse(parts[3]))
    THEN Ok([kind |-> "GameType", game_type |-> Unwrap(GameTypeParse(parts[3]))])
    ELSE Err("Missing game type")

\* battle_progress::parse_request
ParseRequest(parts) ==
    IF IsJson(GetOr(parts, 2, "{}"))
    THEN Ok([kind |-> "Request", json |-> GetOr(parts, 2, "{}")])
    ELSE Err("json")

\* battle_progress::parse_turn
ParseTurn(parts) ==
    IF Len(parts) > 2 /\ IsSome(ParseNumber(parts[3]))
    THEN Ok([kind |-> "Turn", turn |-> Unwrap(ParseNumber(parts[3]))])
    ELSE Err("Missing turn number")

\* battle_progress::parse_win
ParseWin(parts) == Ok([kind |-> "Win", winner |-> GetOr(parts, 2, "")])

\* battle_major::parse_switch / parse_drag
ParseSwitch(parts, kind) ==
    IF IsNone(ParsePokemonAt(parts, 2)) THEN Err("MissingField")
    ELSE Ok([kind |-> kind,
             pokemon |-> Unwrap(ParsePokemonAt(parts, 2)),
             details |-> ParseDetailsAt(parts, 3),
             hp_status |-> ParseHpStatusAt(parts, 4)])

\* battle_major::parse_faint
ParseFaint(parts) ==
    IF IsNone(ParsePokemonAt(parts, 2)) THEN Err("MissingField")
    ELSE Ok([kind |-> "Faint", pokemon |-> Unwrap(ParsePokemonAt(parts, 2))])

\* battle_minor::parse_damage / parse_heal / parse_sethp
ParseDamage(parts, kind) ==
    IF IsNone(ParsePokemonAt(parts, 2)) THEN Err("MissingField")
    ELSE Ok([kind |-> kind,
             pokemon |-> Unwrap(ParsePokemonAt(parts, 2)),
             hp_status |-> ParseHpStatusAt(parts, 3)])

\* battle_minor::parse_boost / parse_unboost / parse_setboost
ParseBoost(parts, kind) ==
    IF IsNone(ParsePokemonAt(parts, 2)) THEN Err("MissingField")
    ELSE IF ~(Len(parts) > 3 /\ IsSome(StatParse(parts[4]))) THEN Err("Missing stat")
    ELSE IF ~(Len(parts) > 4 /\ IsSome(ParseI8(parts[5]))) THEN Err("Missing amount")
    ELSE Ok([kind |-> kind,
             pokemon |-> Unwrap(ParsePokemonAt(parts, 2)),
             stat |-> Unwrap(StatParse(parts[4])),
             amount |-> Unwrap(ParseI8(parts[5]))])

\* battle_minor::parse_weather
ParseWeather(parts) ==
    Ok([kind |-> "Weather",
        weather |-> GetOr(parts, 2, "none"),
        upkeep |-> \E i \in 1..Len(parts) : parts[i] = "[upkeep]"])

\* battle_minor::parse_sidestart / parse_sideend
ParseSide(parts, kind) ==
    IF Len(parts) > 2 /\ IsSome(SideParse(parts[3]))
    THEN Ok([kind |-> kind, side |-> Unwrap(SideParse(parts[3])),
             condition |-> GetOr(parts, 3, "")])
    ELSE Err("Missing side")

\* the `_ =>` arm as it would be if an unknown verb were a decode failure
UnknownVerbFails(line) == Err("UnknownVerb")

\* the `_ =>` arm of parse_server_message's match
UnknownVerb(line) == Ok([kind |-> "Raw", text |-> line])

\* parse_server_message
ParseServerMessage(raw) ==
    LET line == Trim(raw)
        parts == line.fields
    IN  IF IsEmptyStr(line) THEN Ok([kind |-> "Raw", text |-> Str(<<"">>)])
        ELSE IF ~StartsWithPipe(line) THEN Ok([kind |-> "Raw", text |-> line])
        ELSE IF Len(parts) < 2 THEN Ok([kind |-> "Raw", text |-> line])
        ELSE CASE parts[2] = "challstr" -> ParseChallstr(parts)
               [] parts[2] = "popup" -> ParsePopup(parts)
               [] parts[2] = "title" -> ParseTitle(parts)
               [] parts[2] \in {"chat", "c"} -> ParseChat(parts, None)
               [] parts[2] = "c:" -> ParseTimestampedChat(parts)
               [] parts[2] = "html" -> ParseHtml(parts)
               [] parts[2] = "uhtml" -> ParseUhtml(parts)
               [] parts[2] = "player" -> ParsePlayer(parts)
               [] parts[2] = "gametype" -> ParseGametype(parts)
               [] parts[2] = "request" -> ParseRequest(parts)
               [] parts[2] = "upkeep" -> Ok([kind |-> "Upkeep"])
               [] parts[2] = "turn" -> ParseTurn(parts)
               [] parts[2] = "win" -> ParseWin(parts)
               [] parts[2] = "tie" -> Ok([kind |-> "Tie"])
               [] parts[2] = "switch" -> ParseSwitch(parts, "Switch")
               [] parts[2] = "drag" -> ParseSwitch(parts, "Drag")
               [] parts[2] = "faint" -> ParseFaint(parts)
               [] parts[2] = "-damage" -> ParseDamage(parts, "Damage")
               [] parts[2] = "-heal" -> ParseDamage(parts, "Heal")
               [] parts[2] = "-sethp" -> ParseDamage(parts, "SetHp")
               [] parts[2] = "-boost" -> ParseBoost(parts, "Boost")
               [] parts[2] = "-unboost" -> ParseBoost(parts, "Unboost")
               [] parts[2] = "-setboost" -> ParseBoost(parts, "SetBoost")
               [] parts[2] = "-clearallboost" -> Ok([kind |-> "ClearAllBoost"])
               [] parts[2] = "-weather" -> ParseWeather(parts)
               [] parts[2] = "-sidestart" -> ParseSide(parts, "SideStart")
               [] parts[2] = "-sideend" -> ParseSide(parts, "SideEnd")
               [] parts[2] = "-swapsideconditions" -> Ok([kind |-> "SwapSideConditions"])
               [] parts[2] \notin DispatchTable -> UnknownVerb(line)

\* the lines of a frame are held as a sequence; str::strip_prefix('>') on the
\* first fields the model feeds in
StripPrefixGt(s) ==
    CASE s = ">battle-1" -> Some("battle-1")
      [] s = ">" -> Some("")
      [] OTHER -> None

\* the room id a first line carries, if it starts with '>'
RoomOf(first_line) ==
    IF ~first_line.lead /\ IsSome(StripPrefixGt(first_line.fields[1]))
    THEN Some([first_line EXCEPT !.fields[1] = Unwrap(StripPrefixGt(@))])
    ELSE None

\* the elements of seq that satisfy Keep, in order
RECURSIVE DecodeLines(_, _)
DecodeLines(lines, i) ==
    IF i > Len(lines) THEN Ok(<<>>)
    ELSE IF IsEmptyStr(Trim(lines[i])) THEN DecodeLines(lines, i + 1)
    ELSE LET head == ParseServerMessage(lines[i])
         IN  IF ~head.ok THEN head
             ELSE LET rest == DecodeLines(lines, i + 1)
                  IN  IF rest.ok THEN Ok(<<head.msg>> \o rest.msg) ELSE rest

\* parse_server_frame
ParseServerFrame(frame) ==
    LET room_id == IF Len(frame) > 0 THEN RoomOf(frame[1]) ELSE None
        first == IF IsSome(room_id) THEN 2 ELSE 1
        messages == DecodeLines(frame, first)
    IN  IF messages.ok
        THEN Ok([room_id |-> room_id, messages |-> messages.msg])
        ELSE messages

----------------------------------------------------------------------------
(* The calls.  Each action is one call of update or update_from_request on *)
(* the tracker, with its argument drawn from a finite set of messages.  A  *)
(* tracker whose last call panicked takes no further call.  An action      *)
(* applies the arm of update's match that its message kind selects.        *)

\* a call of TrackedBattle::update with msg, whose match arm yields r
Apply(msg, r) ==
    /\ battle' = r.battle
    /\ panicked' = r.panic
    /\ prev' = battle
    /\ last' = msg
    /\ UNCHANGED <<overflow_checks, obj, obj_prev, call, ret>>

\* a call of TrackedBattle::update_from_request
ApplyRequest(request) ==
    /\ battle' = UpdateFromRequest(battle, request)
    /\ prev' = battle
    /\ last' = [kind |-> "update_from_request", request |-> request]
    /\ UNCHANGED <<panicked, overflow_checks, obj, obj_prev, call, ret>>

\* Pokemon subjects ("p1a: Pikachu") over the given seats, positions and names
Subjects(seats, positions, names) ==
    {[player |-> s, position |-> q, name |-> n] :
        s \in seats, q \in positions, n \in names}

\* PokemonDetails of a species, as decoded from "Species, L50"
DetailsOf(species) ==
    [species |-> species, level |-> Some(50), gender |-> None,
     shiny |-> FALSE, tera_type |-> None]

\* HpStatus values: "100/100" and the bare percentage "50"
HpExactFull == [current |-> 100, max |-> Some(100), status |-> None]
HpPercentHalf == [current |-> 50, max |-> None, status |-> None]

UpdateBattlePlayer(seats, usernames) ==
    \E s \in seats, u \in usernames :
        /\ ~panicked
        /\ Apply([kind |-> "BattlePlayer", player |-> s, username |-> u],
                 Returned(GetOrCreateSide(battle, s, u)))

UpdateGameType(types) ==
    \E g \in types :
        /\ ~panicked
        /\ Apply([kind |-> "GameType", game_type |-> g],
                 Returned(SetGameType(battle, g)))

UpdateSwitch(subjects, details, hps) ==
    \E p \in subjects, d \in details, h \in hps :
        /\ ~panicked
        /\ Apply([kind |-> "Switch", pokemon |-> p, details |-> d, hp_status |-> h],
                 Returned(HandleSwitch(battle, p, d, h, FALSE)))

UpdateDrag(subjects, details, hps) ==
    \E p \in subjects, d \in details, h \in hps :
        /\ ~panicked
        /\ Apply([kind |-> "Drag", pokemon |-> p, details |-> d, hp_status |-> h],
                 Returned(HandleSwitch(battle, p, d, h, TRUE)))

UpdateFaint(subjects) ==
    \E p \in subjects :
        /\ ~panicked
        /\ Apply([kind |-> "Faint", pokemon |-> p], HandleFaint(battle, p))

CallUpdateFromRequest(requests) ==
    \E r \in requests :
        /\ ~panicked
        /\ ApplyRequest(r)

UpdateTurn(turns) ==
    \E t \in turns :
        /\ ~panicked
        /\ Apply([kind |-> "Turn", turn |-> t], Returned([battle EXCEPT !.turn = t]))

UpdateWin(usernames) ==
    \E u \in usernames :
        /\ ~panicked
        /\ Apply([kind |-> "Win", winner |-> u],
                 Returned([battle EXCEPT !.ended = TRUE, !.winner = Some(u)]))

UpdateTie ==
    /\ ~panicked
    /\ Apply([kind |-> "Tie"], Returned([battle EXCEPT !.ended = TRUE, !.tie = TRUE]))

UpdateDamage(subjects, hps) ==
    \E p \in subjects, h \in hps :
        /\ ~panicked
        /\ Apply([kind |-> "Damage", pokemon |-> p, hp_status |-> h],
                 Returned(ApplyHpMessage(battle, p, h)))

UpdateBoost(subjects, stats, amounts) ==
    \E p \in subjects, st \in stats, a \in amounts :
        /\ ~panicked
        /\ Apply([kind |-> "Boost", pokemon |-> p, stat |-> st, amount |-> a],
                 BoostEntry(battle, p, st, a, overflow_checks))

UpdateUnboost(subjects, stats, amounts) ==
    \E p \in subjects, st \in stats, a \in amounts :
        /\ ~panicked
        /\ Apply([kind |-> "Unboost", pokemon |-> p, stat |-> st, amount |-> a],
                 UnboostEntry(battle, p, st, a, overflow_checks))

UpdateSetBoost(subjects, stats, amounts) ==
    \E p \in subjects, st \in stats, a \in amounts :
        /\ ~panicked
        /\ Apply([kind |-> "SetBoost", pokemon |-> p, stat |-> st, amount |-> a],
                 Returned(WithPokemon(battle, p,
                     LAMBDA e : [e EXCEPT !.boosts = StatStagesSet(@, st, a)])))

UpdateClearBoost(subjects) ==
    \E p \in subjects :
        /\ ~panicked
        /\ Apply([kind |-> "ClearBoost", pokemon |-> p],
                 Returned(WithPokemon(battle, p,
                     LAMBDA e : [e EXCEPT !.boosts = StatStagesClear(@)])))

UpdateClearAllBoost ==
    /\ ~panicked
    /\ Apply([kind |-> "ClearAllBoost"], Returned(ClearAllBoost(battle)))

UpdateInvertBoost(subjects) ==
    \E p \in subjects :
        /\ ~panicked
        /\ Apply([kind |-> "InvertBoost", pokemon |-> p],
                 InvertEntry(battle, p, overflow_checks))

UpdateClearPositiveBoost(subjects) ==
    \E p \in subjects :
        /\ ~panicked
        /\ Apply([kind |-> "ClearPositiveBoost", target |-> p],
                 Returned(WithPokemon(battle, p,
                     LAMBDA e : [e EXCEPT !.boosts = StatStagesClearPositive(@)])))

UpdateClearNegativeBoost(subjects) ==
    \E p \in subjects :
        /\ ~panicked
        /\ Apply([kind |-> "ClearNegativeBoost", pokemon |-> p],
                 Returned(WithPokemon(battle, p,
                     LAMBDA e : [e EXCEPT !.boosts = StatStagesClearNegative(@)])))

UpdateCopyBoost(subjects) ==
    \E src \in subjects, tgt \in subjects :
        /\ ~panicked
        /\ Apply([kind |-> "CopyBoost", source |-> src, target |-> tgt],
                 Returned(CopyBoost(battle, src, tgt)))

UpdateSwapBoost(subjects, statlists) ==
    \E src \in subjects, tgt \in subjects, sl \in statlists :
        /\ ~panicked
        /\ Apply([kind |-> "SwapBoost", source |-> src, target |-> tgt, stats |-> sl],
                 Returned(SwapBoost(battle, src, tgt, sl)))

UpdateVolatileStart(subjects, effects) ==
    \E p \in subjects, e \in effects :
        /\ ~panicked
        /\ Apply([kind |-> "VolatileStart", pokemon |-> p, effect |-> e],
                 Returned(VolatileStart(battle, p, e)))

UpdateVolatileEnd(subjects, effects) ==
    \E p \in subjects, e \in effects :
        /\ ~panicked
        /\ Apply([kind |-> "VolatileEnd", pokemon |-> p, effect |-> e],
                 Returned(VolatileEnd(battle, p, e)))

UpdateEndAbility(subjects) ==
    \E p \in subjects :
        /\ ~panicked
        /\ Apply([kind |-> "EndAbility", pokemon |-> p],
                 Returned(EndAbility(battle, p)))

\* no method call has been made at the unit level
UnitIdle ==
    /\ obj = None
    /\ obj_prev = None
    /\ call = [fn |-> "none"]
    /\ ret = None

\* the tracker right after TrackedBattle::new()
InitTracker ==
    /\ battle = TrackedBattleNew
    /\ prev = TrackedBattleNew
    /\ last = [kind |-> "new"]
    /\ panicked = FALSE
    /\ UnitIdle

----------------------------------------------------------------------------
(* Spec: rosters and active slots.  Player, game-variant, switch, drag and *)
(* faint messages and team snapshots on seat p1 (and the player message on *)
(* p2); none of them does i8 arithmetic.                                   *)

MaxTeam == 1

SlotNames == {"Pikachu", "Sparky"}
SlotPositions == {None, Some("a"), Some("b"), Some("c")}
SlotSubjects == Subjects({"p1"}, SlotPositions, SlotNames)
SlotDetails == {DetailsOf("Pikachu")}
SlotGameTypes == {"Singles", "Doubles"}

\* payload Pokemon: an active one at full HP and a fainted one on the bench
SlotTeamMembers ==
    {[ident |-> <<"p1", "Pikachu">>, details |-> <<"Pikachu", "L50">>,
      condition |-> [hp |-> <<"100", "100">>, rest |-> <<>>],
      active |-> TRUE, moves |-> <<"thunderbolt">>, ability |-> "static",
      item |-> ""],
     [ident |-> <<"p1", "Sparky">>, details |-> <<"Pikachu", "L50">>,
      condition |-> [hp |-> <<"0">>, rest |-> <<"fnt">>],
      active |-> FALSE, moves |-> <<"thunderbolt">>, ability |-> "static",
      item |-> ""]}

\* the teams of 1..n payload Pokemon
Teams(members, n) ==
    UNION {[1..k -> members] : k \in 1..n}

SlotRequests ==
    {[side |-> Some([id |-> "p1", name |-> "Alice", pokemon |-> t])] :
        t \in Teams(SlotTeamMembers, MaxTeam)}

Init ==
    /\ InitTracker
    /\ overflow_checks = FALSE

Next ==
    \/ UpdateBattlePlayer({"p1"}, {"Alice"})
    \/ UpdateGameType(SlotGameTypes)
    \/ UpdateSwitch(SlotSubjects, SlotDetails, {None})
    \/ UpdateDrag(Subjects({"p1"}, {Some("a")}, SlotNames), SlotDetails,
                  {None, Some(HpExactFull)})
    \/ UpdateFaint(SlotSubjects)
    \/ CallUpdateFromRequest(SlotRequests)

Spec == Init /\ [][Next]_vars

----------------------------------------------------------------------------
(* Properties of rosters and active slots, checked under Spec.             *)

\* the roster and the slot list of a seat (empty when the side does not exist)
RosterOf(b, player) ==
    IF IsSome(b.sides[player]) THEN Unwrap(b.sides[player]).pokemon ELSE <<>>
SlotsOf(b, player) ==
    IF IsSome(b.sides[player]) THEN Unwrap(b.sides[player]).active_indices ELSE <<>>

\* the last call was a switch or a drag
LastIsSwitch == last.kind \in {"Switch", "Drag"}

\* the roster index the subject of the last call resolved to before the call
ResolvedBefore ==
    IF IsSome(prev.sides[last.pokemon.player])
    THEN SideFindPokemon(Unwrap(prev.sides[last.pokemon.player]), last.pokemon.name)
    ELSE None

\* C1: TrackedBattle::update never panics: in every state reachable by update
\* and update_from_request calls, every call has returned normally.
C1_UpdateNeverPanics == ~panicked

\* C2: every active-slot pointer that is present on any side is a valid index
\* into that side's roster (index < roster length).
C2_ActivePointersValid ==
    \A p \in Players :
        \A k \in 1..Len(SlotsOf(battle, p)) :
            IsSome(SlotsOf(battle, p)[k]) =>
                /\ Unwrap(SlotsOf(battle, p)[k]) >= 0
                /\ Unwrap(SlotsOf(battle, p)[k]) < Len(RosterOf(battle, p))

\* C2 witness: a game-variant message has just shrunk p1's slot list from two
\* occupied slots to one, and the slot that is left still holds a pointer.
C2_Witness ==
    /\ last.kind = "GameType"
    /\ Len(SlotsOf(prev, "p1")) = 2
    /\ IsSome(SlotsOf(prev, "p1")[1])
    /\ IsSome(SlotsOf(prev, "p1")[2])
    /\ Len(SlotsOf(battle, "p1")) = 1
    /\ IsSome(SlotsOf(battle, "p1")[1])

\* C3: a switch or drag that names an already-fainted roster entry does not
\* make any active-slot pointer reference that entry: every slot that points
\* to it after the call pointed to it before the call.
C3_FaintedNeverAssigned ==
    (LastIsSwitch /\ IsSome(ResolvedBefore)) =>
        LET pl == last.pokemon.player
            idx == Unwrap(ResolvedBefore)
        IN  RosterOf(prev, pl)[idx + 1].fainted =>
                \A k \in 1..Len(SlotsOf(battle, pl)) :
                    SlotsOf(battle, pl)[k] = Some(idx) =>
                        /\ k <= Len(SlotsOf(prev, pl))
                        /\ SlotsOf(prev, pl)[k] = Some(idx)

\* C9: a switch or drag whose subject name matches no roster entry appends
\* exactly one entry (existing entries keep their indices), marks it active
\* and makes the active slot of the subject's board position reference it,
\* for every board position and every number of active slots.
C9_NewNameAppendsAndActivates ==
    (LastIsSwitch /\ IsNone(ResolvedBefore)) =>
        LET pl == last.pokemon.player
            n == Len(RosterOf(prev, pl))
            roster == RosterOf(battle, pl)
            slot == SwitchSlot(last.pokemon)
        IN  /\ Len(roster) = n + 1
            /\ \A i \in 1..n : roster[i].identity = RosterOf(prev, pl)[i].identity
            /\ roster[n + 1].active
            /\ slot < Len(SlotsOf(battle, pl))
            /\ SlotsOf(battle, pl)[slot + 1] = Some(n)

----------------------------------------------------------------------------
(* SpecSwitchOut: what a switch does to the entry it replaces.  Switches   *)
(* into slots a and b of seat p1, with set-boost and end-ability messages  *)
(* giving the entries stages and volatiles to lose.                        *)

SwitchOutSubjects == Subjects({"p1"}, {None, Some("a"), Some("b")}, SlotNames)
SwitchOutTargets == Subjects({"p1"}, {Some("a")}, SlotNames)

NextSwitchOut ==
    \/ UpdateGameType(SlotGameTypes)
    \/ UpdateSwitch(SwitchOutSubjects, SlotDetails, {None})
    \/ UpdateSetBoost(SwitchOutTargets, {"atk"}, {2})
    \/ UpdateEndAbility(SwitchOutTargets)

SpecSwitchOut == Init /\ [][NextSwitchOut]_vars

\* the last call was a switch or drag into a slot that held an entry
SwitchIntoOccupiedSlot ==
    /\ LastIsSwitch
    /\ SwitchSlot(last.pokemon) < Len(SlotsOf(prev, last.pokemon.player))
    /\ IsSome(SlotsOf(prev, last.pokemon.player)[SwitchSlot(last.pokemon) + 1])

\* the roster index of the slot's previous occupant
PreviousOccupant ==
    Unwrap(SlotsOf(prev, last.pokemon.player)[SwitchSlot(last.pokemon) + 1])

\* the roster index of the entry the switch brings in
Incoming ==
    IF IsSome(ResolvedBefore) THEN Unwrap(ResolvedBefore)
    ELSE Len(RosterOf(prev, last.pokemon.player))

\* C10 as stated: after a switch into a slot whose pointer already referenced
\* an entry, the previous occupant has active = false, all stages 0 and no
\* volatiles, the incoming entry has active = true, and the slot references
\* the incoming entry.
C10_Original ==
    SwitchIntoOccupiedSlot =>
        LET pl == last.pokemon.player
            roster == RosterOf(battle, pl)
        IN  /\ ~roster[PreviousOccupant + 1].active
            /\ roster[PreviousOccupant + 1].boosts = StatStagesNew
            /\ roster[PreviousOccupant + 1].volatiles = {}
            /\ roster[Incoming + 1].active
            /\ SlotsOf(battle, pl)[SwitchSlot(last.pokemon) + 1] = Some(Incoming)

\* C10 as amended: the previous occupant ends with all stages 0 and no
\* volatiles, and with active = false unless it is itself the incoming
\* entry; the incoming entry ends with active = true and the slot references
\* it.
C10_SwitchReplacesOccupant ==
    SwitchIntoOccupiedSlot =>
        LET pl == last.pokemon.player
            roster == RosterOf(battle, pl)
        IN  /\ PreviousOccupant # Incoming => ~roster[PreviousOccupant + 1].active
            /\ roster[PreviousOccupant + 1].boosts = StatStagesNew
            /\ roster[PreviousOccupant + 1].volatiles = {}
            /\ roster[Incoming + 1].active
            /\ SlotsOf(battle, pl)[SwitchSlot(last.pokemon) + 1] = Some(Incoming)

\* C10 witness: a switch has replaced an occupant that had a raised attack
\* stage and a volatile by a different entry.
C10_Witness ==
    /\ SwitchIntoOccupiedSlot
    /\ PreviousOccupant # Incoming
    /\ RosterOf(prev, last.pokemon.player)[PreviousOccupant + 1].boosts["atk"] = 2
    /\ "GastroAcid" \in RosterOf(prev, last.pokemon.player)[PreviousOccupant + 1].volatiles
    /\ RosterOf(prev, last.pokemon.player)[PreviousOccupant + 1].active

----------------------------------------------------------------------------
(* SpecOutcome: turn and outcome bookkeeping.  Turn, win and tie messages  *)
(* interleaved with messages that touch a seat, a slot and an entry's HP.  *)

MaxTurn == 2
OutcomeUsers == {"Alice", "Bob"}
OutcomeSubjects == Subjects({"p1"}, {Some("a")}, {"Pikachu"})

NextOutcome ==
    \/ UpdateBattlePlayer({"p1"}, {"Alice"})
    \/ UpdateGameType(SlotGameTypes)
    \/ UpdateTurn(0 .. MaxTurn)
    \/ UpdateWin(OutcomeUsers)
    \/ UpdateTie
    \/ UpdateSwitch(OutcomeSubjects, SlotDetails, {Some(HpExactFull)})
    \/ UpdateDamage(OutcomeSubjects, {Some(HpPercentHalf)})

SpecOutcome == Init /\ [][NextOutcome]_vars

\* C4: while the battle is unfinished the turn counter never goes down: the
\* turn after each applied message is at least the turn before it.
C4_TurnMonotonic ==
    ~prev.ended => battle.turn >= prev.turn

\* C5: once ended is true, ended, winner and tie are the same after every
\* later message as they were before it.
C5_OutcomeImmutable ==
    prev.ended =>
        /\ battle.ended = prev.ended
        /\ battle.winner = prev.winner
        /\ battle.tie = prev.tie

\* C6: a message applied after a win or tie has been applied leaves the
\* whole aggregate exactly as it was.
C6_PostTerminalNoOp ==
    prev.ended => battle = prev

----------------------------------------------------------------------------
(* SpecBoost: every message that writes stat stages, with amounts at the   *)
(* ends of the i8 range, in a build with and a build without overflow      *)
(* checks.                                                                 *)

BoostSubjects == Subjects({"p1"}, {Some("a")}, SlotNames)
BoostStats == {"atk", "evasion"}
BoostAmounts == {3, I8Max, I8Min}
BoostStatLists == {<<"atk">>, <<"atk", "evasion">>}

InitBoost ==
    /\ InitTracker
    /\ overflow_checks \in BOOLEAN

NextBoost ==
    \/ UpdateSwitch(BoostSubjects, SlotDetails, {None})
    \/ UpdateBoost(BoostSubjects, BoostStats, BoostAmounts)
    \/ UpdateUnboost(BoostSubjects, BoostStats, BoostAmounts)
    \/ UpdateSetBoost(BoostSubjects, BoostStats, BoostAmounts)
    \/ UpdateClearBoost(BoostSubjects)
    \/ UpdateClearAllBoost
    \/ UpdateInvertBoost(BoostSubjects)
    \/ UpdateClearPositiveBoost(BoostSubjects)
    \/ UpdateClearNegativeBoost(BoostSubjects)
    \/ UpdateCopyBoost(BoostSubjects)
    \/ UpdateSwapBoost(BoostSubjects, BoostStatLists)

SpecBoost == InitBoost /\ [][NextBoost]_vars

\* C7: in every reachable state each of the seven stages of every roster
\* entry of every seat lies in [-6, +6].
C7_StagesInRange ==
    \A pl \in Players :
        \A i \in 1..Len(RosterOf(battle, pl)) :
            \A s \in Stats :
                /\ RosterOf(battle, pl)[i].boosts[s] >= MinStage
                /\ RosterOf(battle, pl)[i].boosts[s] <= MaxStage

\* C7 witness: a set-boost message carrying the largest decodable amount has
\* been applied to an entry and left the named stage at +6.
C7_Witness ==
    /\ last.kind = "SetBoost"
    /\ last.amount = I8Max
    /\ IsSome(FindPokemon(prev, last.pokemon))
    /\ EntryAt(battle, last.pokemon.player, FindPokemon(prev, last.pokemon)).boosts[last.stat] = MaxStage
    /\ EntryAt(prev, last.pokemon.player, FindPokemon(prev, last.pokemon)).boosts[last.stat] < MaxStage

----------------------------------------------------------------------------
(* SpecStages: StatStages called directly, one method per step, on a value *)
(* that starts at StatStages::new().                                       *)

\* a method call on obj returning r = [stages, ret, panic]
CallStages(c, r) ==
    /\ obj_prev' = obj
    /\ obj' = r.stages
    /\ ret' = r.ret
    /\ panicked' = r.panic
    /\ call' = c
    /\ UNCHANGED <<battle, prev, last, overflow_checks>>

CallBoost(stats, amounts) ==
    \E st \in stats, a \in amounts :
        /\ ~panicked
        /\ CallStages([fn |-> "boost", stat |-> st, amount |-> a],
                      StatStagesBoost(obj, st, a, overflow_checks))

CallUnboost(stats, amounts) ==
    \E st \in stats, a \in amounts :
        /\ ~panicked
        /\ CallStages([fn |-> "unboost", stat |-> st, amount |-> a],
                      StatStagesUnboost(obj, st, a, overflow_checks))

CallSet(stats, values) ==
    \E st \in stats, v \in values :
        /\ ~panicked
        /\ CallStages([fn |-> "set", stat |-> st, amount |-> v],
                      [stages |-> StatStagesSet(obj, st, v), ret |-> 0, panic |-> FALSE])

StagesStats == {"atk", "spe"}
StagesAmounts == {1, 3, I8Max, -1, I8Min}

InitStages ==
    /\ battle = TrackedBattleNew
    /\ prev = TrackedBattleNew
    /\ last = [kind |-> "new"]
    /\ panicked = FALSE
    /\ overflow_checks \in BOOLEAN
    /\ obj = StatStagesNew
    /\ obj_prev = StatStagesNew
    /\ call = [fn |-> "new"]
    /\ ret = 0

NextStages ==
    \/ CallBoost(StagesStats, StagesAmounts)
    \/ CallUnboost(StagesStats, StagesAmounts)
    \/ CallSet(StagesStats, StagesAmounts)

SpecStages == InitStages /\ [][NextStages]_vars

\* the postcondition of a call that moves call.stat by amount
MovedBy(amount) ==
    /\ ~panicked
    /\ obj[call.stat] = Clamp(obj_prev[call.stat] + amount, MinStage, MaxStage)
    /\ ret = obj[call.stat] - obj_prev[call.stat]
    /\ \A s \in Stats \ {call.stat} : obj[s] = obj_prev[s]

\* C8: boost(stat, amount) at stage c returns, sets the stage to
\* clamp(c + amount, -6, +6), returns new stage - c and changes no other
\* stat; unboost(stat, amount) does the same with -amount.
C8_BoostClampsAndReports ==
    /\ call.fn = "boost" => MovedBy(call.amount)
    /\ call.fn = "unboost" => MovedBy(0 - call.amount)

----------------------------------------------------------------------------
(* SpecScenario: lines fed one at a time through the wire decoder into a   *)
(* fresh tracker.  obj is the transcript of the lines fed so far; a line   *)
(* that decodes is applied with update, one that does not is dropped.      *)

\* a line with the given '|' pieces and no surrounding whitespace
Line(fields) == Str(fields)

LinePlayer == Line(<<"", "player", "p1", "Alice", "1">>)
LineSwitch == Line(<<"", "switch", "p1a: Pikachu", "Pikachu, L50", "100/100">>)
LineDamage == Line(<<"", "damage", "p1a: Pikachu", "50/100">>)
LineMinorDamage == Line(<<"", "-damage", "p1a: Pikachu", "50/100">>)
LineBoost == Line(<<"", "boost", "p1a: Pikachu", "atk", "2">>)
LineMinorBoost == Line(<<"", "-boost", "p1a: Pikachu", "atk", "2">>)
LineFaint == Line(<<"", "faint", "p1a: Pikachu", "">>)
LineWin == Line(<<"", "win", "Alice">>)

\* the scenario with its lines as the specification prints them
Scenario == <<LinePlayer, LineSwitch, LineDamage, LineBoost, LineFaint, LineWin>>

\* the scenario with the damage and boost lines carrying the minor-effect dash
ScenarioMinor ==
    <<LinePlayer, LineSwitch, LineMinorDamage, LineMinorBoost, LineFaint, LineWin>>

ScenarioLines ==
    {LinePlayer, LineSwitch, LineDamage, LineMinorDamage, LineBoost, LineMinorBoost,
     LineFaint, LineWin}

\* decode one line and, if it decodes, apply the message to the tracker
FeedLine(lines) ==
    \E line \in lines :
        /\ ~panicked
        /\ Len(obj) < Len(Scenario)
        /\ LET r == ParseServerMessage(line)
               u == IF r.ok THEN Update(battle, r.msg, overflow_checks)
                    ELSE Returned(battle)
           IN  /\ battle' = u.battle
               /\ panicked' = u.panic
               /\ prev' = battle
               /\ last' = IF r.ok THEN r.msg ELSE last
               /\ ret' = r
        /\ obj_prev' = obj
        /\ obj' = Append(obj, line)
        /\ call' = [fn |-> "parse_server_message", line |-> line]
        /\ UNCHANGED overflow_checks

InitScenario ==
    /\ battle = TrackedBattleNew
    /\ prev = TrackedBattleNew
    /\ last = [kind |-> "new"]
    /\ panicked = FALSE
    /\ overflow_checks \in BOOLEAN
    /\ obj = <<>>
    /\ obj_prev = <<>>
    /\ call = [fn |-> "none"]
    /\ ret = None

NextScenario == FeedLine(ScenarioLines)

SpecScenario == InitScenario /\ [][NextScenario]_vars

\* the final state the scenario is said to reach, but for the atk stage
ScenarioOutcome ==
    /\ Len(RosterOf(battle, "p1")) = 1
    /\ Unwrap(battle.sides["p1"]).username = "Alice"
    /\ RosterOf(battle, "p1")[1].hp_current = 0
    /\ RosterOf(battle, "p1")[1].fainted
    /\ battle.ended
    /\ battle.winner = Some("Alice")

\* the atk stage of P1's first roster entry
ScenarioAtk == StatStagesGet(RosterOf(battle, "p1")[1].boosts, "atk")

\* C11 as stated: the six lines as printed, with `damage` and `boost` as
\* verbs, leave P1's only entry fainted at HP 0 with atk stage 2 and the
\* battle won by Alice.
C11_Original == (obj = Scenario) => (ScenarioOutcome /\ ScenarioAtk = 2)

\* C11: the scenario whose damage and boost lines carry the minor-effect dash
\* (`-damage`, `-boost`) leaves P1 (Alice) with exactly one roster entry, at
\* HP 0, fainted, with atk stage 2, and the battle ended with winner "Alice";
\* with the lines as printed the outcome is the same except that the atk
\* stage is 0, the `damage` and `boost` lines decoding to Raw.
C11_ScenarioOutcome ==
    /\ (obj = ScenarioMinor) => (ScenarioOutcome /\ ScenarioAtk = 2)
    /\ (obj = Scenario) => (ScenarioOutcome /\ ScenarioAtk = 0)

C11_Witness ==
    /\ obj = ScenarioMinor
    /\ ScenarioAtk = 2
    /\ RosterOf(battle, "p1")[1].fainted
    /\ battle.winner = Some("Alice")

----------------------------------------------------------------------------
(* SpecDecoder: single calls of the decoder's functions.  call is the      *)
(* function and the argument it is about to be given, drawn when the       *)
(* behaviour starts; ret is None until the call returns and Some(r) once   *)
(* it has returned r.  The tracker is not involved.                        *)

\* the pending call returns r
Returns(r) ==
    /\ ret' = Some(r)
    /\ UNCHANGED <<battle, prev, last, panicked, overflow_checks, obj, obj_prev, call>>

CallParseServerMessage ==
    /\ ~panicked
    /\ call.fn = "parse_server_message"
    /\ IsNone(ret)
    /\ Returns(ParseServerMessage(call.line))

CallParseServerFrame ==
    /\ ~panicked
    /\ call.fn = "parse_server_frame"
    /\ IsNone(ret)
    /\ Returns(ParseServerFrame(call.frame))

CallPokemonParse ==
    /\ ~panicked
    /\ call.fn = "Pokemon::parse"
    /\ IsNone(ret)
    /\ Returns(PokemonParse(call.s))

\* the '|' pieces of the lines given to parse_server_message
DecoderFields ==
    {<<"">>, <<"hello">>, <<"", "">>,
     <<"", "someunknown", "data">>,
     <<"", "damage", "p1a: Pikachu", "50/100">>,
     <<"", "popup", "hello">>, <<"", "popup", "a", "b">>, <<"", "popup">>,
     <<"", "title", "a", "b">>, <<"", "title">>,
     <<"", "html", "a", "b">>,
     <<"", "uhtml", "n", "a", "b">>, <<"", "uhtml", "n">>,
     <<"", "challstr", "4", "abc">>, <<"", "challstr", "">>,
     <<"", "c", " Alice", "a", "b">>, <<"", "chat", "+Bob", "hello">>,
     <<"", "c", "", "hello">>,
     <<"", "c:", "1700000000", " Alice", "a", "b">>,
     <<"", "c:", "x", " Alice", "a">>,
     <<"", "turn", "1">>, <<"", "turn", "x">>, <<"", "tie">>,
     <<"", "player", "p1", "Alice">>, <<"", "player", "p5", "Alice">>,
     <<"", "switch", "Pikachu", "Pikachu, L50", "100/100">>,
     <<"", "request", "{bad">>,
     <<"", "-boost", "p1a: Pikachu", "atk", "x">>,
     <<"", "-weather", "RainDance", "[upkeep]">>}

\* every line with those pieces, with and without surrounding whitespace
DecoderLines ==
    {[lead |-> l, fields |-> f, trail |-> t] :
        l \in BOOLEAN, f \in DecoderFields, t \in BOOLEAN}

\* the lines the frames are made of
FrameLines ==
    {Line(<<">battle-1">>),
     [lead |-> TRUE, fields |-> <<">battle-1">>, trail |-> FALSE],
     [lead |-> FALSE, fields |-> <<">battle-1">>, trail |-> TRUE],
     Line(<<"", "player", "p1", "Alice">>),
     Line(<<"", "turn", "x">>),
     Line(<<"", "win", "Alice">>),
     [lead |-> TRUE, fields |-> <<"">>, trail |-> FALSE]}

\* the longest frame, in lines
MaxFrame == 3

Frames == UNION {[1..n -> FrameLines] : n \in 0..MaxFrame}

\* the subjects given to Pokemon::parse
DecoderSubjects ==
    {"p1a: Pikachu", "p1b: Pikachu", "p1: Pikachu", "p2a: Type: Null",
     "p1z: Pikachu", "p1ab: Pikachu", "p5a: Pikachu", "a: Pikachu", "Pikachu"}

\* the calls the behaviours start from
DecoderCalls ==
    {[fn |-> "parse_server_message", line |-> l] : l \in DecoderLines}
        \cup {[fn |-> "parse_server_frame", frame |-> f] : f \in Frames}
        \cup {[fn |-> "Pokemon::parse", s |-> s] : s \in DecoderSubjects}

InitDecoder ==
    /\ battle = TrackedBattleNew
    /\ prev = TrackedBattleNew
    /\ last = [kind |-> "new"]
    /\ panicked = FALSE
    /\ overflow_checks = FALSE
    /\ obj = None
    /\ obj_prev = None
    /\ call \in DecoderCalls
    /\ ret = None

NextDecoder ==
    \/ CallParseServerMessage
    \/ CallParseServerFrame
    \/ CallPokemonParse

\* the call of the named function has returned
Called(f) == call.fn = f /\ IsSome(ret)

SpecDecoder == InitDecoder /\ [][NextDecoder]_vars

\* the lines of a frame after its room line, if it has one
BodyOf(frame) ==
    IF Len(frame) > 0 /\ ~frame[1].lead /\ IsSome(StripPrefixGt(frame[1].fields[1]))
    THEN SubSeq(frame, 2, Len(frame))
    ELSE frame

\* the lines of a frame's body that are not blank
NonBlank(frame) == SelectSeq(BodyOf(frame), LAMBDA l : Trim(l).fields # <<"">>)

\* the lines of a frame's body that are not blank and decode
Decodable(frame) == SelectSeq(NonBlank(frame), LAMBDA l : ParseServerMessage(l).ok)

\* the messages of the given lines, in order
MessagesOf(lines) == [i \in 1..Len(lines) |-> ParseServerMessage(lines[i]).msg]

\* C12: in parse_server_frame a malformed line of a known verb fails alone:
\* the frame is still returned, with the messages of every other line.
C12_MalformedLineIsLocal ==
    Called("parse_server_frame")
        => /\ Unwrap(ret).ok
           /\ Unwrap(ret).msg.messages = MessagesOf(Decodable(call.frame))

\* C14: parse_server_frame returns room_id = Some(R) exactly when the first
\* line is '>R', and one message per non-blank remaining line, in line order.
C14_FrameShape ==
    Called("parse_server_frame")
        => /\ Unwrap(ret).ok
           /\ Unwrap(ret).msg.room_id =
                 (IF Len(call.frame) > 0 THEN RoomOf(call.frame[1]) ELSE None)
           /\ Len(Unwrap(ret).msg.messages) = Len(NonBlank(call.frame))
           /\ \A i \in 1..Len(NonBlank(call.frame)) :
                 Ok(Unwrap(ret).msg.messages[i])
                     = ParseServerMessage(NonBlank(call.frame)[i])

\* the line given to parse_server_message, as given and trimmed
GivenLine == call.line
TrimmedLine == Trim(call.line)

\* C13 as stated: a line that is empty, does not start with '|' or has a verb
\* outside the dispatch table decodes to Raw carrying the original line text,
\* and only a line whose verb is in the dispatch table returns an error.
C13_Original ==
    Called("parse_server_message")
        => LET unknown == \/ IsEmptyStr(GivenLine)
                          \/ GivenLine.lead
                          \/ ~StartsWithPipe(GivenLine)
                          \/ GivenLine.fields[2] \notin DispatchTable
           IN  /\ unknown => Unwrap(ret) = Ok([kind |-> "Raw", text |-> GivenLine])
               /\ ~Unwrap(ret).ok => ~unknown

\* C13: parse_server_message looks at the line with surrounding whitespace
\* trimmed off.  If the trimmed line is empty, does not start with '|' or has
\* a verb outside the dispatch table, the call returns Raw carrying the
\* trimmed line, never an error; only a trimmed line whose verb is in the
\* dispatch table can return an error.
C13_UnknownIsRaw ==
    Called("parse_server_message")
        => LET unknown == \/ IsEmptyStr(TrimmedLine)
                          \/ ~StartsWithPipe(TrimmedLine)
                          \/ TrimmedLine.fields[2] \notin DispatchTable
           IN  /\ unknown => Unwrap(ret) = Ok([kind |-> "Raw", text |-> TrimmedLine])
               /\ ~Unwrap(ret).ok => ~unknown

C13_Witness ==
    /\ Called("parse_server_message")
    /\ GivenLine = [lead |-> TRUE, fields |-> <<"", "someunknown", "data">>,
                    trail |-> TRUE]
    /\ Unwrap(ret) = Ok([kind |-> "Raw", text |-> Str(<<"", "someunknown", "data">>)])

\* the verbs whose last field is free text, and the number of '|' pieces
\* (the empty one before the first '|' included) that precede the text
FreeTextVerbs == {"chat", "c", "c:", "html", "uhtml", "popup", "title", "challstr"}
FixedFields(verb) ==
    CASE verb \in {"html", "popup", "title", "challstr"} -> 2
      [] verb \in {"chat", "c", "uhtml"} -> 3
      [] verb = "c:" -> 4

\* the free text a decoded message carries
TextOf(msg) ==
    CASE msg.kind = "Chat" -> msg.message
      [] msg.kind = "Uhtml" -> msg.html
      [] OTHER -> msg.text

\* a free-text line was decoded
FreeTextDecoded ==
    /\ Called("parse_server_message")
    /\ StartsWithPipe(TrimmedLine)
    /\ TrimmedLine.fields[2] \in FreeTextVerbs
    /\ Unwrap(ret).ok

\* C15 as stated: the text is the entire remainder of the line after the
\* verb's fixed fields.
C15_Original ==
    FreeTextDecoded
        => TextOf(Unwrap(ret).msg) =
              [lead |-> FALSE,
               fields |-> SubSeq(GivenLine.fields,
                                 FixedFields(GivenLine.fields[2]) + 1,
                                 Len(GivenLine.fields)),
               trail |-> GivenLine.trail]

\* C15: for the free-text verbs the decoded text is the entire remainder,
\* after the verb's fixed fields, of the line with its surrounding whitespace
\* trimmed off: every embedded '|' is kept, whitespace that ends the line is
\* not.
C15_TextIsTrimmedRemainder ==
    FreeTextDecoded
        => TextOf(Unwrap(ret).msg) =
              [lead |-> FALSE,
               fields |-> SubSeq(TrimmedLine.fields,
                                 FixedFields(TrimmedLine.fields[2]) + 1,
                                 Len(TrimmedLine.fields)),
               trail |-> FALSE]

C15_Witness ==
    /\ FreeTextDecoded
    /\ GivenLine = [lead |-> FALSE, fields |-> <<"", "c", " Alice", "a", "b">>,
                    trail |-> TRUE]
    /\ TextOf(Unwrap(ret).msg) = Str(<<"a", "b">>)

\* C16: Pokemon::parse yields a seat among p1..p4, a slot that is absent or
\* one of a, b, c, and the whole remainder after the first ": " as the name;
\* it rejects a subject without ": " or without a seat prefix.
C16_SubjectParse ==
    Called("Pokemon::parse")
        => LET parsed == Unwrap(ret)
               cut == SplitOnceColonSpace(call.s)
           IN  /\ IsSome(parsed) =>
                     /\ Unwrap(parsed).player \in Players
                     /\ Unwrap(parsed).position \in {None, Some("a"), Some("b"), Some("c")}
                     /\ Unwrap(parsed).name = Unwrap(cut)[2]
               /\ IsNone(cut) => IsNone(parsed)
               /\ call.s = "p1a: Pikachu" =>
                     parsed = Some([player |-> "p1", position |-> Some("a"),
                                    name |-> "Pikachu"])

----------------------------------------------------------------------------
(* SpecHp: HP snapshots.  Switch and damage messages on seat p1 whose HP    *)
(* field is decoded by HpStatus::parse from exact ("50/100") and percentage *)
(* ("75") texts.                                                            *)

HpSubjects == Subjects({"p1"}, {Some("a")}, {"Pikachu", "Eevee"})

\* the HP fields of the messages
HpTexts == {"100/100", "50/100", "75", "50", "0 fnt"}

\* what parse_hp_status hands the message for each of them
HpSnapshots == {HpStatusParse(t) : t \in HpTexts}

NextHp ==
    \/ UpdateSwitch(HpSubjects, {DetailsOf("Pikachu")}, HpSnapshots \cup {None})
    \/ UpdateDamage(HpSubjects, HpSnapshots)

SpecHp == Init /\ [][NextHp]_vars

\* the last call applied an HP snapshot to an entry
SnapshotApplied ==
    /\ last.kind \in {"Switch", "Damage"}
    /\ IsSome(last.hp_status)
    /\ IsSome(FindPokemon(battle, last.pokemon))

\* the entry the last call's subject resolves to
SnapshotEntry ==
    EntryAt(battle, last.pokemon.player, FindPokemon(battle, last.pokemon))

\* C17: after a snapshot is applied the entry holds exactly what the snapshot
\* said: its current value, and its maximum if it had one, an unknown maximum
\* if it was a bare percentage.
C17_HpKindPropagates ==
    SnapshotApplied
        => /\ SnapshotEntry.hp_current = Unwrap(last.hp_status).current
           /\ SnapshotEntry.hp_max = Unwrap(last.hp_status).max

----------------------------------------------------------------------------
(* SpecWeather: weather messages, decoded by parse_weather from lines whose *)
(* fields after the verb are a weather name and an optional tag, and the    *)
(* turn messages between them.                                              *)

UpdateWeather(lines) ==
    \E parts \in lines :
        /\ ~panicked
        /\ Apply(ParseWeather(parts).msg,
                 Returned(SetWeather(battle, ParseWeather(parts).msg.weather,
                                     ParseWeather(parts).msg.upkeep)))

WeatherNames == {"RainDance", "Rain Dance", "SunnyDay", "Sandstorm", "Fog", "none", ""}
WeatherTags == {"[upkeep]", "[from] ability: Drizzle"}

\* |-weather, |-weather|NAME and |-weather|NAME|TAG
WeatherLines ==
    {<<"", "-weather">>}
        \cup {<<"", "-weather", w>> : w \in WeatherNames}
        \cup {<<"", "-weather", w, t>> : w \in WeatherNames, t \in WeatherTags}

NextWeather ==
    \/ UpdateWeather(WeatherLines)
    \/ UpdateTurn(0 .. MaxTurn)

SpecWeather == Init /\ [][NextWeather]_vars

\* C18: a weather message tagged as an upkeep repeat leaves the stored weather
\* as it was, whatever it names; one without the tag sets the stored weather
\* to the recognised weather it names, and clears it if it names "none" or
\* nothing.
C18_UpkeepKeepsWeather ==
    (last.kind = "Weather")
        => /\ last.upkeep => battle.field.weather = prev.field.weather
           /\ (~last.upkeep /\ last.weather \notin {"none", ""}
                 /\ IsSome(WeatherFromProtocol(last.weather)))
                 => battle.field.weather = WeatherFromProtocol(last.weather)
           /\ (~last.upkeep /\ last.weather \in {"none", ""})
                 => battle.field.weather = None

C18_Witness ==
    /\ last.kind = "Weather"
    /\ last.upkeep
    /\ last.weather = "SunnyDay"
    /\ prev.field.weather = Some("Rain")
    /\ battle.field.weather = Some("Rain")

----------------------------------------------------------------------------
(* SpecSide: side conditions.  Player messages create the sides p1 and p2;  *)
(* side-start, side-end and swap-side-conditions messages change their      *)
(* condition mappings.                                                      *)

UpdateSideStart(sides, conditions) ==
    \E sd \in sides, c \in conditions :
        /\ ~panicked
        /\ Apply([kind |-> "SideStart", side |-> sd, condition |-> c],
                 Returned(SideStart(battle, sd, c)))

UpdateSideEnd(sides, conditions) ==
    \E sd \in sides, c \in conditions :
        /\ ~panicked
        /\ Apply([kind |-> "SideEnd", side |-> sd, condition |-> c],
                 Returned(SideEnd(battle, sd, c)))

UpdateSwapSideConditions ==
    /\ ~panicked
    /\ Apply([kind |-> "SwapSideConditions"], Returned(SwapSideConditions(battle)))

\* the sides "p1: Alice" and "p2: Bob" as Side::parse decodes them
SideSides == {Unwrap(SideParse(s)) : s \in {"p1: Alice", "p2: Bob"}}

\* the condition fields of the messages; "Sticky Goo" is no side condition
SideConditionNames == {"Spikes", "move: Toxic Spikes", "Stealth Rock", "Sticky Goo"}

NextSide ==
    \/ UpdateBattlePlayer({"p1", "p2"}, {"Alice"})
    \/ UpdateSideStart(SideSides, SideConditionNames)
    \/ UpdateSideEnd(SideSides, SideConditionNames)
    \/ UpdateSwapSideConditions

SpecSide == Init /\ [][NextSide]_vars

\* the last call was a side-start that reached add_condition
AddConditionCalled ==
    /\ last.kind = "SideStart"
    /\ IsSome(GetSide(prev, last.side.player))
    /\ IsSome(SideConditionFromProtocol(last.condition))

\* the condition the last side-start named, and its layers before and after
AddedCondition == Unwrap(SideConditionFromProtocol(last.condition))
LayersBefore == ConditionLayers(Unwrap(GetSide(prev, last.side.player)), AddedCondition)
LayersAfter == ConditionLayers(Unwrap(GetSide(battle, last.side.player)), AddedCondition)

\* what add_condition returned to the side-start arm
AddConditionReturned ==
    AddCondition(Unwrap(GetSide(prev, last.side.player)), AddedCondition).ret

\* C19: every condition in a side's mapping has between 1 and its maximum
\* number of layers (Spikes 3, Toxic Spikes 2, any other 1); add_condition on
\* a condition at its maximum returns false and leaves the count, and
\* otherwise returns true and raises the count by exactly 1.
C19_LayersBounded ==
    /\ \A p \in Players :
          IsSome(GetSide(battle, p)) =>
              \A c \in DOMAIN Unwrap(GetSide(battle, p)).conditions :
                  /\ Unwrap(GetSide(battle, p)).conditions[c].layers >= 1
                  /\ Unwrap(GetSide(battle, p)).conditions[c].layers
                        <= (CASE c = "Spikes" -> 3 [] c = "ToxicSpikes" -> 2 [] OTHER -> 1)
    /\ AddConditionCalled =>
          IF LayersBefore = MaxLayers(AddedCondition)
          THEN ~AddConditionReturned /\ LayersAfter = LayersBefore
          ELSE AddConditionReturned /\ LayersAfter = LayersBefore + 1

C19_Witness ==
    /\ AddConditionCalled
    /\ AddedCondition = "Spikes"
    /\ LayersBefore = 3
    /\ LayersAfter = 3
    /\ ~AddConditionReturned

----------------------------------------------------------------------------
(* Type effectiveness (types/pokemon_type.rs).  An f32 is held as the exact *)
(* fraction num / den with den a power of two and the fraction in lowest    *)
(* terms; the chart's values and their products are such fractions, so the  *)
(* f32 arithmetic on them is exact.                                         *)

\* an f32 with the value num / den, in lowest terms
RECURSIVE F32(_, _)
F32(num, den) ==
    IF num = 0 THEN [num |-> 0, den |-> 1]
    ELSE IF den > 1 /\ num % 2 = 0 THEN F32(num \div 2, den \div 2)
    ELSE [num |-> num, den |-> den]

\* f32 multiplication
MulF32(x, y) == F32(x.num * y.num, x.den * y.den)

\* the declaration order of enum Type; `t as usize` is the 0-based position
TypeOrder ==
    <<"Normal", "Fire", "Water", "Electric", "Grass", "Ice", "Fighting", "Poison",
      "Ground", "Flying", "Psychic", "Bug", "Rock", "Ghost", "Dragon", "Dark",
      "Steel", "Fairy">>
TypeAsUsize(t) == (CHOOSE i \in 1..Len(TypeOrder) : TypeOrder[i] = t) - 1

\* TYPE_CHART: row = attacking type, column = defending type
TYPE_CHART ==
    LET z == F32(0, 1)
        h == F32(1, 2)
        o == F32(1, 1)
        d == F32(2, 1)
    IN  <<
        <<o, o, o, o, o, o, o, o, o, o, o, o, h, z, o, o, h, o>>,
        <<o, h, h, o, d, d, o, o, o, o, o, d, h, o, h, o, d, o>>,
        <<o, d, h, o, h, o, o, o, d, o, o, o, d, o, h, o, o, o>>,
        <<o, o, d, h, h, o, o, o, z, d, o, o, o, o, h, o, o, o>>,
        <<o, h, d, o, h, o, o, h, d, h, o, h, d, o, h, o, h, o>>,
        <<o, h, h, o, d, h, o, o, d, d, o, o, o, o, d, o, h, o>>,
        <<d, o, o, o, o, d, o, h, o, h, h, h, d, z, o, d, d, h>>,
        <<o, o, o, o, d, o, o, h, h, o, o, o, h, h, o, o, z, d>>,
        <<o, d, o, d, h, o, o, d, o, z, o, h, d, o, o, o, d, o>>,
        <<o, o, o, h, d, o, d, o, o, o, o, d, h, o, o, o, h, o>>,
        <<o, o, o, o, o, o, d, d, o, o, h, o, o, o, o, z, h, o>>,
        <<o, h, o, o, d, o, h, h, o, h, d, o, o, h, o, d, h, h>>,
        <<o, d, o, o, o, d, h, o, h, d, o, d, o, o, o, o, h, o>>,
        <<z, o, o, o, o, o, o, o, o, o, d, o, o, d, o, h, o, o>>,
        <<o, o, o, o, o, o, o, o, o, o, o, o, o, o, d, o, h, z>>,
        <<o, o, o, o, o, o, h, o, o, o, d, o, o, d, o, h, o, h>>,
        <<o, h, h, h, o, d, o, o, o, o, o, o, d, o, o, o, h, d>>,
        <<o, h, o, o, o, o, d, h, o, o, o, o, o, o, d, d, h, o>> >>

\* Type::effectiveness
Effectiveness(self, defender) ==
    TYPE_CHART[TypeAsUsize(self) + 1][TypeAsUsize(defender) + 1]

\* effectiveness_multi as it would be if it looked at the first defender only
EffectivenessMultiFirstOnly(self, defenders) ==
    IF Len(defenders) = 0 THEN F32(1, 1) ELSE Effectiveness(self, defenders[1])

\* Type::effectiveness_multi: Iterator::product, starting from 1.0
RECURSIVE EffectivenessMulti(_, _)
EffectivenessMulti(self, defenders) ==
    IF Len(defenders) = 0 THEN F32(1, 1)
    ELSE MulF32(EffectivenessMulti(self, SubSeq(defenders, 1, Len(defenders) - 1)),
                Effectiveness(self, defenders[Len(defenders)]))

----------------------------------------------------------------------------
(* SpecTypes: single calls of Type::effectiveness and                      *)
(* Type::effectiveness_multi, with call and ret as in SpecDecoder.         *)

CallEffectiveness ==
    /\ ~panicked
    /\ call.fn = "effectiveness"
    /\ IsNone(ret)
    /\ Returns(Effectiveness(call.self, call.defender))

CallEffectivenessMulti ==
    /\ ~panicked
    /\ call.fn = "effectiveness_multi"
    /\ IsNone(ret)
    /\ Returns(EffectivenessMulti(call.self, call.defenders))

\* the longest list of defending types
MaxDefenders == 2

DefenderLists == UNION {[1..n -> Types] : n \in 0..MaxDefenders}

TypeCalls ==
    {[fn |-> "effectiveness", self |-> a, defender |-> d] : a \in Types, d \in Types}
        \cup {[fn |-> "effectiveness_multi", self |-> a, defenders |-> ds] :
                 a \in Types, ds \in DefenderLists}

InitTypes ==
    /\ battle = TrackedBattleNew
    /\ prev = TrackedBattleNew
    /\ last = [kind |-> "new"]
    /\ panicked = FALSE
    /\ overflow_checks = FALSE
    /\ obj = None
    /\ obj_prev = None
    /\ call \in TypeCalls
    /\ ret = None

NextTypes ==
    \/ CallEffectiveness
    \/ CallEffectivenessMulti

SpecTypes == InitTypes /\ [][NextTypes]_vars

\* the product of the single-type values of the attacker against each defender
RECURSIVE ProductOfSingles(_, _)
ProductOfSingles(self, defenders) ==
    IF Len(defenders) = 0 THEN F32(1, 1)
    ELSE MulF32(Effectiveness(self, Head(defenders)),
                ProductOfSingles(self, Tail(defenders)))

\* C20: the single-type effectiveness is one of 0, 0.5, 1, 2; the multi-type
\* effectiveness is the product of the single-type values, so against one or
\* two defending types it is one of 0, 0.25, 0.5, 1, 2, 4; Electric against
\* Water and Flying is 4 and Ground against Flying and Steel is 0.
C20_EffectivenessValues ==
    /\ Called("effectiveness")
          => Unwrap(ret) \in {[num |-> 0, den |-> 1], [num |-> 1, den |-> 2],
                              [num |-> 1, den |-> 1], [num |-> 2, den |-> 1]}
    /\ Called("effectiveness_multi")
          => /\ Unwrap(ret) = ProductOfSingles(call.self, call.defenders)
             /\ Len(call.defenders) \in {1, 2}
                   => Unwrap(ret) \in {[num |-> 0, den |-> 1], [num |-> 1, den |-> 4],
                                       [num |-> 1, den |-> 2], [num |-> 1, den |-> 1],
                                       [num |-> 2, den |-> 1], [num |-> 4, den |-> 1]}
             /\ (call.self = "Electric" /\ call.defenders = <<"Water", "Flying">>)
                   => Unwrap(ret) = [num |-> 4, den |-> 1]
             /\ (call.self = "Ground" /\ call.defenders = <<"Flying", "Steel">>)
                   => Unwrap(ret) = [num |-> 0, den |-> 1]

C20_Witness ==
    /\ Called("effectiveness_multi")
    /\ call.self = "Electric"
    /\ call.defenders = <<"Water", "Flying">>
    /\ Unwrap(ret) = [num |-> 4, den |-> 1]

----------------------------------------------------------------------------
(* SpecKnown: what is known of a Pokemon.  Switch, move, ability and       *)
(* end-ability messages on slot a of seat p1 for two Pokemon, and team     *)
(* snapshots that list the two in either order.  The payload gives each of *)
(* the two its own moves and its own ability.                              *)

UpdateMove(subjects, moves) ==
    \E p \in subjects, m \in moves :
        /\ ~panicked
        /\ Apply([kind |-> "Move", pokemon |-> p, move_name |-> m],
                 Returned(WithPokemon(battle, p, LAMBDA e : RecordMove(e, m))))

UpdateAbility(subjects, abilities) ==
    \E p \in subjects, a \in abilities :
        /\ ~panicked
        /\ Apply([kind |-> "Ability", pokemon |-> p, ability |-> a],
                 Returned(WithPokemon(battle, p, LAMBDA e : RecordAbility(e, a))))

KnownSubjects == Subjects({"p1"}, {Some("a")}, {"Pikachu", "Eevee"})
KnownMoves == {"quickattack"}

\* the payload's Pikachu and Eevee
KnownPikachu ==
    [ident |-> <<"p1", "Pikachu">>, details |-> <<"Pikachu", "L50">>,
     condition |-> [hp |-> <<"100", "100">>, rest |-> <<>>],
     active |-> TRUE, moves |-> <<"thunderbolt">>, ability |-> "static",
     item |-> "lightball"]
KnownEevee ==
    [ident |-> <<"p1", "Eevee">>, details |-> <<"Eevee", "L50">>,
     condition |-> [hp |-> <<"75", "100">>, rest |-> <<>>],
     active |-> FALSE, moves |-> <<"tackle">>, ability |-> "adaptability",
     item |-> ""]

KnownTeams ==
    {<<KnownPikachu>>, <<KnownPikachu, KnownEevee>>, <<KnownEevee, KnownPikachu>>}

KnownRequests ==
    {[side |-> Some([id |-> "p1", name |-> "Alice", pokemon |-> t])] : t \in KnownTeams}

NextKnown ==
    \/ UpdateSwitch(Subjects({"p1"}, {Some("a")}, {"Pikachu"}),
                    {DetailsOf("Pikachu")}, {None})
    \/ UpdateSwitch(Subjects({"p1"}, {Some("a")}, {"Eevee"}),
                    {DetailsOf("Eevee")}, {None})
    \/ UpdateMove(KnownSubjects, KnownMoves)
    \/ UpdateAbility(KnownSubjects, {"lightningrod"})
    \/ UpdateEndAbility(KnownSubjects)
    \/ CallUpdateFromRequest(KnownRequests)

SpecKnown == Init /\ [][NextKnown]_vars

\* the last call was update_from_request
LastIsRequest == last.kind = "update_from_request"

\* the payload team of the last call
LastTeam == Unwrap(last.request.side).pokemon

\* the roster entry holds what the payload says of the payload Pokemon
HoldsDataOf(entry, req_poke) ==
    /\ entry.known_moves = req_poke.moves
    /\ entry.known_ability = Some(req_poke.ability)

\* C21: after update_from_request, a roster entry that was in the roster
\* before the call holds the moves and ability of a payload Pokemon only if
\* the entry denotes that Pokemon (the payload's name is the entry's name).
C21_SnapshotMergesByIdentity ==
    LastIsRequest =>
        \A i \in 1..Len(RosterOf(prev, "p1")) :
            \A j \in 1..Len(LastTeam) :
                HoldsDataOf(RosterOf(battle, "p1")[i], LastTeam[j])
                    => NameMatches(RosterOf(prev, "p1")[i], LastTeam[j].ident[2])

\* the 1-based position of move name m in a known-moves list that holds it
MovePosition(moves, m) == CHOOSE k \in 1..Len(moves) : moves[k] = m

\* every move of old is in new, in the same relative order
KeepsMoves(old, new) ==
    /\ \A a \in 1..Len(old) : Contains(new, old[a])
    /\ \A a, b \in 1..Len(old) :
          (a < b /\ Contains(new, old[a]) /\ Contains(new, old[b]))
              => MovePosition(new, old[a]) < MovePosition(new, old[b])

\* no move name appears twice
Deduplicated(moves) ==
    \A a, b \in 1..Len(moves) : moves[a] = moves[b] => a = b

\* C22: the known-moves list of every roster entry is append-only and
\* deduplicated: a call of update or update_from_request keeps every move the
\* entry had, in the same relative order, and leaves no move name twice.
C22_KnownMovesAppendOnly ==
    \A i \in 1..Len(RosterOf(prev, "p1")) :
        /\ KeepsMoves(RosterOf(prev, "p1")[i].known_moves,
                      RosterOf(battle, "p1")[i].known_moves)
        /\ Deduplicated(RosterOf(battle, "p1")[i].known_moves)

\* the entry the subject of the last call resolved to, before and after it
SubjectBefore == EntryAt(prev, last.pokemon.player, ResolvedBefore)
SubjectAfter == EntryAt(battle, last.pokemon.player, ResolvedBefore)

\* C23: a revealed ability never regresses: an entry whose known_ability was
\* set before a call still has it set after the call, and an end-ability
\* message leaves the known_ability of the entry it resolves unchanged and
\* adds the GastroAcid volatile to it, changing nothing else.
C23_AbilityNeverRegresses ==
    /\ \A i \in 1..Len(RosterOf(prev, "p1")) :
          IsSome(RosterOf(prev, "p1")[i].known_ability)
              => IsSome(RosterOf(battle, "p1")[i].known_ability)
    /\ (last.kind = "EndAbility" /\ IsSome(ResolvedBefore))
          => /\ SubjectAfter.known_ability = SubjectBefore.known_ability
             /\ SubjectAfter =
                    [SubjectBefore EXCEPT !.volatiles = @ \cup {"GastroAcid"}]

\* an end-ability message has reached an entry whose ability was revealed
C23_Witness ==
    /\ last.kind = "EndAbility"
    /\ IsSome(ResolvedBefore)
    /\ IsSome(SubjectBefore.known_ability)
    /\ "GastroAcid" \in SubjectAfter.volatiles
    /\ "GastroAcid" \notin SubjectBefore.volatiles

----------------------------------------------------------------------------
(* Unrecognised names, checked under SpecWeather ("Fog" is no weather).    *)

\* the last call was a weather message that is no upkeep repeat and names
\* something other than "none" or nothing
WeatherAnnounced ==
    /\ last.kind = "Weather"
    /\ ~last.upkeep
    /\ last.weather \notin {"none", ""}

\* C24: a name that matches no entry of the alias table is not dropped: after
\* a non-upkeep weather message that names a weather, recognised or not, the
\* tracker state holds a weather entry.
C24_UnrecognisedNameKept ==
    WeatherAnnounced => IsSome(battle.field.weather)

----------------------------------------------------------------------------
(* Slot counts, checked under Spec.                                        *)

\* C25: once a game-variant message has been applied, the active-slot list of
\* every side has as many slots as the variant has concurrent actives, also
\* for a side created after the message.
C25_SlotsFollowGameType ==
    IsSome(battle.game_type) =>
        \A p \in Players :
            IsSome(battle.sides[p]) =>
                Len(SlotsOf(battle, p)) = ActiveSlotCount(Unwrap(battle.game_type))

----------------------------------------------------------------------------
(* The client (client/src/lib.rs, handle.rs, connection.rs).  obj holds a  *)
(* KazamClient: the logged_in flag of its ClientState, the log of the      *)
(* handler callbacks it has awaited, in order, and the events of its       *)
(* connection.  A frame is the sequence of its messages.                   *)

\* ClientState::new, behind a fresh KazamClient with a handler that logs
ClientNew ==
    [logged_in |-> FALSE, handler |-> <<>>, frames |-> 0, reconnects |-> 0]

\* the handler awaits a callback
Await(client, callback) == [client EXCEPT !.handler = Append(@, callback)]

OnChallstr == [callback |-> "on_challstr"]
OnUpdateUser(named) == [callback |-> "on_update_user", named |-> named]
\* on_logged_in; the log entry also notes how many reconnects preceded the call
OnLoggedIn == [callback |-> "on_logged_in", reconnects |-> 0]

\* the UpdateUser arm as it would be if it announced every named message
DispatchUpdateUserEveryTime(client, named) ==
    LET c1 == IF named THEN [client EXCEPT !.logged_in = TRUE] ELSE client
        c2 == Await(c1, OnUpdateUser(named))
    IN  IF named THEN Await(c2, [OnLoggedIn EXCEPT !.reconnects = client.reconnects])
        ELSE c2

\* dispatch_frame, ServerMessage::UpdateUser
DispatchUpdateUser(client, named) ==
    LET was_logged_in == client.logged_in
        c1 == IF named THEN [client EXCEPT !.logged_in = TRUE] ELSE client
        c2 == Await(c1, OnUpdateUser(named))
    IN  IF named /\ ~was_logged_in
        THEN Await(c2, [OnLoggedIn EXCEPT !.reconnects = client.reconnects])
        ELSE c2

\* one turn of dispatch_frame's loop over frame.messages
DispatchMessage(client, message) ==
    CASE message.kind = "Challstr" -> Await(client, OnChallstr)
      [] message.kind = "UpdateUser" -> DispatchUpdateUser(client, message.named)

\* KazamClient::dispatch_frame from message i (1-based) of the frame
RECURSIVE DispatchFrom(_, _, _)
DispatchFrom(client, messages, i) ==
    IF i > Len(messages) THEN client
    ELSE DispatchFrom(DispatchMessage(client, messages[i]), messages, i + 1)

\* KazamClient::dispatch_frame
DispatchFrame(client, messages) ==
    [DispatchFrom(client, messages, 1) EXCEPT !.frames = @ + 1]

\* Connection::reconnect succeeds: the stream is replaced, the ClientState is not
Reconnected(client) == [client EXCEPT !.reconnects = @ + 1]

MaxClientFrames == 3
MaxReconnects == 1

ClientMessages ==
    {[kind |-> "Challstr"]} \cup {[kind |-> "UpdateUser", named |-> n] : n \in BOOLEAN}
ClientFrames == UNION {[1..k -> ClientMessages] : k \in 1..2}

\* run receives a frame and dispatches it
CallDispatchFrame(frames) ==
    \E f \in frames :
        /\ IsSome(obj)
        /\ Unwrap(obj).frames < MaxClientFrames
        /\ obj' = Some(DispatchFrame(Unwrap(obj), f))
        /\ obj_prev' = obj
        /\ call' = [fn |-> "dispatch_frame", messages |-> f]
        /\ UNCHANGED <<battle, prev, last, panicked, overflow_checks, ret>>

\* recv loses the connection and reconnects
CallReconnect ==
    /\ IsSome(obj)
    /\ Unwrap(obj).reconnects < MaxReconnects
    /\ obj' = Some(Reconnected(Unwrap(obj)))
    /\ obj_prev' = obj
    /\ call' = [fn |-> "reconnect"]
    /\ UNCHANGED <<battle, prev, last, panicked, overflow_checks, ret>>

InitClient ==
    /\ battle = TrackedBattleNew
    /\ prev = TrackedBattleNew
    /\ last = [kind |-> "new"]
    /\ panicked = FALSE
    /\ overflow_checks = FALSE
    /\ obj = Some(ClientNew)
    /\ obj_prev = None
    /\ call = [fn |-> "none"]
    /\ ret = None

NextClient ==
    \/ CallDispatchFrame(ClientFrames)
    \/ CallReconnect

SpecClient == InitClient /\ [][NextClient]_vars

\* the handler's log, and the positions in it of a callback
HandlerLog == Unwrap(obj).handler
LoggedInAt == {k \in 1..Len(HandlerLog) : HandlerLog[k].callback = "on_logged_in"}
NamedAt == {k \in 1..Len(HandlerLog) : HandlerLog[k] = OnUpdateUser(TRUE)}

\* C26: on_logged_in is called at most once in the lifetime of a client: right
\* after on_update_user of the first updateuser message with named = true, and
\* for no later updateuser message, also after a reconnect.
C26_LoggedInOnce ==
    /\ Cardinality(LoggedInAt) <= 1
    /\ \A k \in LoggedInAt :
          /\ k - 1 \in NamedAt
          /\ \A j \in NamedAt : k - 1 <= j
    /\ \A k \in NamedAt :
          (\A j \in NamedAt : k <= j) => k + 1 \in LoggedInAt

\* a named updateuser message was dispatched after login and after a reconnect
C26_Witness ==
    /\ Cardinality(LoggedInAt) = 1
    /\ Unwrap(obj).reconnects = 1
    /\ \E k \in LoggedInAt : HandlerLog[k].reconnects = 0
    /\ call.fn = "dispatch_frame"
    /\ Unwrap(obj_prev).reconnects = 1
    /\ Unwrap(obj_prev).logged_in
    /\ \E i \in 1..Len(call.messages) :
          call.messages[i] = [kind |-> "UpdateUser", named |-> TRUE]

----------------------------------------------------------------------------
(* Faint and the slot pointers, checked under Spec.                        *)

\* C27: after a faint message that returned, the entry E its subject resolved
\* to is fainted, at HP 0 and inactive, and no slot of E's side references E,
\* with or without a board position in the subject; slots that referenced
\* other entries are unchanged, and a faint whose subject resolves to no entry
\* changes no slot.
C27_FaintClearsItsPointer ==
    (last.kind = "Faint" /\ ~panicked) =>
        LET before == SlotsOf(prev, last.pokemon.player)
            after == SlotsOf(battle, last.pokemon.player)
        IN  IF IsSome(ResolvedBefore)
            THEN /\ SubjectAfter.fainted
                 /\ SubjectAfter.hp_current = 0
                 /\ ~SubjectAfter.active
                 /\ \A s \in 1..Len(after) : after[s] # ResolvedBefore
                 /\ \A s \in 1..Len(before) :
                       before[s] # ResolvedBefore => after[s] = before[s]
            ELSE after = before

----------------------------------------------------------------------------
(* SpecStatus: status codes in HP snapshots.  Switch, drag, damage, heal,  *)
(* set-HP, details-change and forme-change messages on slot a of seat p1   *)
(* for a nicknamed Pokemon, with HP fields decoded by HpStatus::parse.     *)

UpdateHeal(subjects, hps) ==
    \E p \in subjects, h \in hps :
        /\ ~panicked
        /\ Apply([kind |-> "Heal", pokemon |-> p, hp_status |-> h],
                 Returned(ApplyHpMessage(battle, p, h)))

UpdateSetHp(subjects, hps) ==
    \E p \in subjects, h \in hps :
        /\ ~panicked
        /\ Apply([kind |-> "SetHp", pokemon |-> p, hp_status |-> h],
                 Returned(ApplyHpMessage(battle, p, h)))

UpdateDetailsChange(subjects, details, hps) ==
    \E p \in subjects, d \in details, h \in hps :
        /\ ~panicked
        /\ Apply([kind |-> "DetailsChange", pokemon |-> p, details |-> d,
                  hp_status |-> h],
                 Returned(ChangeSpecies(battle, p, d.species, h)))

UpdateFormeChange(subjects, species, hps) ==
    \E p \in subjects, sp \in species, h \in hps :
        /\ ~panicked
        /\ Apply([kind |-> "FormeChange", pokemon |-> p, species |-> sp,
                  hp_status |-> h],
                 Returned(ChangeSpecies(battle, p, sp, h)))

StatusSubjects == Subjects({"p1"}, {Some("a")}, {"Sparky"})

\* the HP fields of the messages: a status code, the fainted code, no code
StatusTexts == {"50/100 par", "0 fnt", "100/100"}
StatusSnapshots == {HpStatusParse(t) : t \in StatusTexts}

NextStatus ==
    \/ UpdateSwitch(StatusSubjects, {DetailsOf("Pikachu")}, StatusSnapshots)
    \/ UpdateDrag(StatusSubjects, {DetailsOf("Pikachu")}, StatusSnapshots)
    \/ UpdateDamage(StatusSubjects, StatusSnapshots)
    \/ UpdateHeal(StatusSubjects, StatusSnapshots)
    \/ UpdateSetHp(StatusSubjects, StatusSnapshots)
    \/ UpdateDetailsChange(StatusSubjects, {DetailsOf("Raichu")}, StatusSnapshots)
    \/ UpdateFormeChange(StatusSubjects, {"Pikachu-Gmax"}, StatusSnapshots)

SpecStatus == Init /\ [][NextStatus]_vars

SnapshotKinds ==
    {"Damage", "Heal", "SetHp", "Switch", "Drag", "DetailsChange", "FormeChange"}

\* the last call applied a snapshot that carries a status code to an entry
\* (a switch or drag creates the entry when the subject did not resolve)
CodeApplied ==
    /\ last.kind \in SnapshotKinds
    /\ IsSome(last.hp_status)
    /\ IsSome(Unwrap(last.hp_status).status)
    /\ (IsSome(ResolvedBefore) \/ last.kind \in {"Switch", "Drag"})

AppliedCode == Unwrap(Unwrap(last.hp_status).status)

\* the entry the snapshot was applied to, and whether it was fainted before
CodeEntry == EntryAt(battle, last.pokemon.player, FindPokemon(battle, last.pokemon))
FaintedBefore == IF IsSome(ResolvedBefore) THEN SubjectBefore.fainted ELSE FALSE

\* C28: for damage, heal, set-HP, switch, drag, details-change and
\* forme-change messages alike, a snapshot whose status code is fnt sets the
\* entry's fainted flag and clears its status; any other recognised code sets
\* the status to that value and leaves the fainted flag as it was.
C28_FaintedCodeForcesFainted ==
    CodeApplied =>
        /\ AppliedCode = "fnt"
              => CodeEntry.fainted /\ CodeEntry.status = None
        /\ (AppliedCode # "fnt" /\ IsSome(StatusFromProtocol(AppliedCode)))
              => /\ CodeEntry.status = StatusFromProtocol(AppliedCode)
                 /\ CodeEntry.fainted = FaintedBefore

\* a fnt snapshot has reached a paralysed entry through a forme-change message
C28_Witness ==
    /\ CodeApplied
    /\ last.kind = "FormeChange"
    /\ AppliedCode = "fnt"
    /\ SubjectBefore.status = Some("Paralysis")
    /\ ~SubjectBefore.fainted
    /\ CodeEntry.fainted

----------------------------------------------------------------------------
(* SpecCleanup: one call of PokemonState::on_switch_out on an entry, drawn *)
(* from entries that differ in their combat-scoped fields and in what the  *)
(* battle has made known of them.                                          *)

CallOnSwitchOut ==
    /\ ~panicked
    /\ call.fn = "on_switch_out"
    /\ IsNone(ret)
    /\ Returns(OnSwitchOut(call.self))

\* base types with the current types an entry may have next to them
CleanupTypes ==
    {[base |-> <<>>, current |-> <<>>],
     [base |-> <<"Electric">>, current |-> <<"Electric">>],
     [base |-> <<"Electric">>, current |-> <<"Water">>]}

\* HP, status and fainted flag
CleanupHealth ==
    {[hp_current |-> 100, hp_max |-> None, status |-> None, fainted |-> FALSE],
     [hp_current |-> 50, hp_max |-> Some(100), status |-> Some("Paralysis"),
      fainted |-> FALSE],
     [hp_current |-> 0, hp_max |-> Some(100), status |-> None, fainted |-> TRUE]}

\* what is known of the entry
CleanupKnown ==
    {[moves |-> <<>>, ability |-> None, item |-> None, consumed |-> FALSE],
     [moves |-> <<"thunderbolt", "quickattack">>, ability |-> Some("static"),
      item |-> Some("sitrusberry"), consumed |-> TRUE]}

CleanupEntries ==
    {[PokemonStateFromProtocolWithName(DetailsOf("Pikachu"), "Sparky") EXCEPT
        !.active = a,
        !.boosts = StatStagesSet(StatStagesSet(@, "atk", atk), "spe", spe),
        !.volatiles = v,
        !.dynamaxed = d,
        !.terastallized = t,
        !.base_types = ty.base,
        !.current_types = ty.current,
        !.hp_current = h.hp_current,
        !.hp_max = h.hp_max,
        !.status = h.status,
        !.fainted = h.fainted,
        !.known_moves = k.moves,
        !.known_ability = k.ability,
        !.known_item = k.item,
        !.item_consumed = k.consumed] :
        a \in BOOLEAN, atk \in {0, 2}, spe \in {0, -6},
        v \in {{}, {"Confusion", "GastroAcid"}},
        d \in BOOLEAN, t \in BOOLEAN, ty \in CleanupTypes,
        h \in CleanupHealth, k \in CleanupKnown}

InitCleanup ==
    /\ battle = TrackedBattleNew
    /\ prev = TrackedBattleNew
    /\ last = [kind |-> "new"]
    /\ panicked = FALSE
    /\ overflow_checks = FALSE
    /\ obj = None
    /\ obj_prev = None
    /\ call \in {[fn |-> "on_switch_out", self |-> p] : p \in CleanupEntries}
    /\ ret = None

NextCleanup == CallOnSwitchOut

SpecCleanup == InitCleanup /\ [][NextCleanup]_vars

\* C29: on_switch_out resets exactly the combat-scoped fields: afterwards the
\* stages are all 0, the volatile set is empty, dynamaxed and terastallized
\* are false, the current types are the base types and active is false, while
\* identity, HP and maximum, status, fainted flag, known moves, known ability,
\* known item and the item-consumed flag are as they were.
C29_SwitchOutResetsCombatFields ==
    Called("on_switch_out") =>
        LET before == call.self
            after == Unwrap(ret)
        IN  /\ after.boosts = StatStagesNew
            /\ after.volatiles = {}
            /\ ~after.dynamaxed
            /\ ~after.terastallized
            /\ after.current_types = before.base_types
            /\ after.base_types = before.base_types
            /\ ~after.active
            /\ after.identity = before.identity
            /\ after.hp_current = before.hp_current
            /\ after.hp_max = before.hp_max
            /\ after.status = before.status
            /\ after.fainted = before.fainted
            /\ after.known_moves = before.known_moves
            /\ after.known_ability = before.known_ability
            /\ after.known_item = before.known_item
            /\ after.item_consumed = before.item_consumed

\* a paralysed, boosted, dynamaxed and terastallized entry with changed types
\* and known moves, ability and item has been switched out
C29_Witness ==
    /\ Called("on_switch_out")
    /\ call.self.active
    /\ call.self.boosts["atk"] = 2
    /\ call.self.volatiles # {}
    /\ call.self.dynamaxed
    /\ call.self.terastallized
    /\ call.self.current_types # call.self.base_types
    /\ call.self.status = Some("Paralysis")
    /\ IsSome(call.self.known_ability)
    /\ call.self.item_consumed
    /\ Unwrap(ret).status = Some("Paralysis")

----------------------------------------------------------------------------
(* SpecLookup: roster lookup by name.  A Pikachu nicknamed Sparky and a    *)
(* Ditto nicknamed Pikachu on seat p1: team snapshots that list the two in *)
(* either order, and switch and damage messages that address them by their *)
(* nicknames.                                                              *)

LookupSparky ==
    [ident |-> <<"p1", "Sparky">>, details |-> <<"Pikachu", "L50">>,
     condition |-> [hp |-> <<"100", "100">>, rest |-> <<>>],
     active |-> TRUE, moves |-> <<"thunderbolt">>, ability |-> "static",
     item |-> ""]
LookupPikachu ==
    [ident |-> <<"p1", "Pikachu">>, details |-> <<"Ditto", "L50">>,
     condition |-> [hp |-> <<"100", "100">>, rest |-> <<>>],
     active |-> FALSE, moves |-> <<"transform">>, ability |-> "limber",
     item |-> ""]

LookupRequests ==
    {[side |-> Some([id |-> "p1", name |-> "Alice", pokemon |-> t])] :
        t \in {<<LookupSparky, LookupPikachu>>, <<LookupPikachu, LookupSparky>>}}

LookupSubjects == Subjects({"p1"}, {Some("a")}, {"Sparky", "Pikachu"})

NextLookup ==
    \/ CallUpdateFromRequest(LookupRequests)
    \/ UpdateSwitch(Subjects({"p1"}, {Some("a")}, {"Sparky"}),
                    {DetailsOf("Pikachu")}, {None})
    \/ UpdateSwitch(Subjects({"p1"}, {Some("a")}, {"Pikachu"}),
                    {DetailsOf("Ditto")}, {None})
    \/ UpdateDamage(LookupSubjects, {Some(HpPercentHalf), Some(HpExactFull)})

SpecLookup == Init /\ [][NextLookup]_vars

\* the roster indices (0-based) of the entries of the last call's side that
\* had the subject's name as nickname, or as species, before the call
NicknameMatches ==
    {i - 1 : i \in {j \in 1..Len(RosterOf(prev, last.pokemon.player)) :
        RosterOf(prev, last.pokemon.player)[j].identity.nickname
            = Some(last.pokemon.name)}}
SpeciesMatches ==
    {i - 1 : i \in {j \in 1..Len(RosterOf(prev, last.pokemon.player)) :
        RosterOf(prev, last.pokemon.player)[j].identity.species = last.pokemon.name}}

\* C30: roster lookup is nickname first, species fallback: when one entry of
\* the side has the subject's name as nickname and a different entry has it
\* as species, a switch or damage message resolves to the entry with the
\* nickname, whatever the roster order, and a damage snapshot lands on it.
C30_NicknameFirst ==
    (/\ last.kind \in {"Switch", "Damage"}
     /\ NicknameMatches # {}
     /\ SpeciesMatches \ NicknameMatches # {})
        => /\ IsSome(ResolvedBefore)
           /\ Unwrap(ResolvedBefore) \in NicknameMatches
           /\ last.kind = "Damage" =>
                 \E i \in NicknameMatches :
                     RosterOf(battle, last.pokemon.player)[i + 1].hp_current
                         = Unwrap(last.hp_status).current

----------------------------------------------------------------------------
(* Unresolved subjects, checked under Spec.                                *)

\* the kinds of Spec's messages that address a Pokemon and are no switch
AddressedKinds == {"Faint"}

\* C31: a message other than switch or drag whose subject names a seat with no
\* side, or a Pokemon that matches no roster entry of its side, is a silent
\* no-op: the call returns and the aggregate, slot pointers included, is as
\* it was before.
C31_UnresolvedIsNoOp ==
    (last.kind \in AddressedKinds /\ IsNone(ResolvedBefore))
        => ~panicked /\ battle = prev

----------------------------------------------------------------------------
(* SpecCosmetic: cosmetic and non-battle messages, dispatched by update's  *)
(* match, between switch, damage and turn messages that build up a state.  *)

UpdateCosmetic(kinds) ==
    \E k \in kinds :
        /\ ~panicked
        /\ Apply([kind |-> k], Update(battle, [kind |-> k], overflow_checks))

CosmeticSubjects == Subjects({"p1"}, {Some("a")}, {"Pikachu", "Sparky"})

NextCosmetic ==
    \/ UpdateCosmetic(IgnoredKinds \cup NonBattleKinds)
    \/ UpdateSwitch(CosmeticSubjects, SlotDetails, {None})
    \/ UpdateDamage(CosmeticSubjects, {Some(HpPercentHalf)})
    \/ UpdateTurn(1 .. MaxTurn)

SpecCosmetic == Init /\ [][NextCosmetic]_vars

\* C32: a cosmetic or non-battle message leaves the tracker state unchanged:
\* after update is applied to one, the call has returned and the aggregate
\* equals the aggregate before the call.
C32_CosmeticChangesNothing ==
    last.kind \in IgnoredKinds \cup NonBattleKinds
        => ~panicked /\ battle = prev

\* an upkeep message has been applied in a running battle with a damaged entry
C32_Witness ==
    /\ last.kind = "Upkeep"
    /\ battle.turn = MaxTurn
    /\ Len(RosterOf(battle, "p1")) = 2
    /\ \E i \in 1..2 : RosterOf(battle, "p1")[i].hp_current = 50

----------------------------------------------------------------------------
(* SpecSwap: swap-boost messages between two entries of seat p1 whose      *)
(* stages were set by set-boost messages; Ghost is never switched in.      *)

SwapNames == {"Pikachu", "Sparky"}
SwapSubjects == Subjects({"p1"}, {Some("a")}, SwapNames \cup {"Ghost"})
SwapStatLists == {<<>>, <<"atk">>, <<"atk", "evasion">>}

NextSwap ==
    \/ UpdateSwitch(Subjects({"p1"}, {Some("a")}, SwapNames), SlotDetails, {None})
    \/ UpdateSetBoost(Subjects({"p1"}, {Some("a")}, SwapNames),
                      {"atk", "spe"}, {2, -1})
    \/ UpdateSwapBoost(SwapSubjects, SwapStatLists)

SpecSwap == Init /\ [][NextSwap]_vars

\* the entries the source and the target of the last call resolved to
SwapSource == FindPokemon(prev, last.source)
SwapTarget == FindPokemon(prev, last.target)

\* both subjects resolved, to different entries
SwapBetweenTwo ==
    /\ last.kind = "SwapBoost"
    /\ IsSome(SwapSource)
    /\ IsSome(SwapTarget)
    /\ (last.source.player # last.target.player \/ SwapSource # SwapTarget)

\* the stages st with those of the named stats taken from other
StagesWith(st, other, stats) ==
    [s \in Stats |-> IF Contains(stats, s) THEN other[s] ELSE st[s]]

\* C33: a swap-boost message exchanges the stages of the named stats between
\* the source and the target entry and leaves every other stage, and
\* everything else, unchanged; when both subjects resolve to one entry, or
\* one resolves to none, nothing changes.
C33_SwapExchangesNamedStats ==
    last.kind = "SwapBoost" =>
        IF SwapBetweenTwo
        THEN LET sp == last.source.player
                 tp == last.target.player
                 src == EntryAt(prev, sp, SwapSource).boosts
                 tgt == EntryAt(prev, tp, SwapTarget).boosts
                 b1 == [prev EXCEPT !.sides[sp][1].pokemon[Unwrap(SwapSource) + 1].boosts
                                        = StagesWith(src, tgt, last.stats)]
             IN  battle = [b1 EXCEPT !.sides[tp][1].pokemon[Unwrap(SwapTarget) + 1].boosts
                                        = StagesWith(tgt, src, last.stats)]
        ELSE battle = prev

\* a swap of attack alone between entries that differ in attack and in speed
C33_Witness ==
    /\ SwapBetweenTwo
    /\ last.stats = <<"atk">>
    /\ EntryAt(prev, "p1", SwapSource).boosts["atk"] = 2
    /\ EntryAt(prev, "p1", SwapTarget).boosts["atk"] = -1
    /\ EntryAt(prev, "p1", SwapSource).boosts["spe"] = 2
    /\ EntryAt(prev, "p1", SwapTarget).boosts["spe"] = 0
    /\ EntryAt(battle, "p1", SwapSource).boosts["atk"] = -1
    /\ EntryAt(battle, "p1", SwapSource).boosts["spe"] = 2

----------------------------------------------------------------------------
(* SpecCourt: swap-side-conditions messages between player and side-start  *)
(* messages on seats p1, p2 and p3.                                        *)

CourtSide(player, raw) == [player |-> player, raw |-> raw]

NextCourt ==
    \/ UpdateBattlePlayer({"p1", "p2", "p3"}, {"Alice"})
    \/ UpdateSideStart({CourtSide("p1", "p1: Alice"), CourtSide("p2", "p2: Bob")},
                       {"Spikes", "Reflect"})
    \/ UpdateSideStart({CourtSide("p3", "p3: Carol")}, {"Reflect"})
    \/ UpdateSwapSideConditions

SpecCourt == Init /\ [][NextCourt]_vars

\* the condition mapping of a seat's side
ConditionsOf(b, player) == Unwrap(GetSide(b, player)).conditions

\* C34: a swap-side-conditions message exchanges the whole condition mappings
\* of seats p1 and p2 and changes nothing else; if p1 or p2 has no side it
\* changes nothing; and applying it twice to any state gives that state back.
C34_SwapExchangesMappings ==
    /\ last.kind = "SwapSideConditions" =>
          IF IsSome(GetSide(prev, "p1")) /\ IsSome(GetSide(prev, "p2"))
          THEN battle = [prev EXCEPT
                            !.sides["p1"][1].conditions = ConditionsOf(prev, "p2"),
                            !.sides["p2"][1].conditions = ConditionsOf(prev, "p1")]
          ELSE battle = prev
    /\ SwapSideConditions(SwapSideConditions(battle)) = battle

\* a swap between three Spikes layers on p1 and Reflect on p2, with Reflect
\* on p3 as well
C34_Witness ==
    /\ last.kind = "SwapSideConditions"
    /\ IsSome(GetSide(prev, "p1")) /\ IsSome(GetSide(prev, "p2"))
    /\ IsSome(GetSide(prev, "p3"))
    /\ ConditionLayers(Unwrap(GetSide(prev, "p1")), "Spikes") = 3
    /\ DOMAIN ConditionsOf(prev, "p2") = {"Reflect"}
    /\ DOMAIN ConditionsOf(prev, "p3") = {"Reflect"}
    /\ ConditionLayers(Unwrap(GetSide(battle, "p2")), "Spikes") = 3
    /\ DOMAIN ConditionsOf(battle, "p1") = {"Reflect"}

----------------------------------------------------------------------------
(* The player message, checked under Spec.                                 *)

\* C35: after a player message for seat S with username U, side S exists and
\* its username is U, also when the side existed before the message; the
\* roster and the conditions the side had are kept.
C35_PlayerSetsUsername ==
    last.kind = "BattlePlayer" =>
        /\ IsSome(GetSide(battle, last.player))
        /\ Unwrap(GetSide(battle, last.player)).username = last.username
        /\ IsSome(GetSide(prev, last.player)) =>
              /\ RosterOf(battle, last.player) = RosterOf(prev, last.player)
              /\ ConditionsOf(battle, last.player) = ConditionsOf(prev, last.player)

----------------------------------------------------------------------------
(* SpecVolatile: volatile-start and volatile-end messages on one entry of  *)
(* seat p1, with effect texts that differ by prefix, case, separators or   *)
(* alias, for table names and for a name the table does not hold.          *)

EffectTexts ==
    {<<"c", "o", "n", "f", "u", "s", "i", "o", "n">>,
     <<"C", "o", "n", "f", "u", "s", "i", "o", "n">>,
     <<"c", "o", "n", "f", "u", "s", "e", "d">>,
     <<"m", "o", "v", "e", ":", " ", "T", "a", "u", "n", "t">>,
     <<"T", "a", "u", "n", "t">>,
     <<"K", "i", "n", "g", "'", "s", " ", "S", "h", "i", "e", "l", "d">>,
     <<"p", "r", "o", "t", "e", "c", "t">>,
     <<"a", "b", "i", "l", "i", "t", "y", ":", " ", "F", "l", "a", "s", "h", " ", "F", "i", "r", "e">>,
     <<"f", "l", "a", "s", "h", "-", "f", "i", "r", "e">>,
     <<"F", "o", "o", " ", "B", "a", "r">>,
     <<"m", "o", "v", "e", ":", " ", "F", "o", "o", " ", "B", "a", "r">>,
     <<"f", "o", "o", "b", "a", "r">>}

VolatileSubjects == Subjects({"p1"}, {Some("a")}, {"Sparky", "Ghost"})

NextVolatile ==
    \/ UpdateSwitch(Subjects({"p1"}, {Some("a")}, {"Sparky"}), SlotDetails, {None})
    \/ UpdateVolatileStart(VolatileSubjects, EffectTexts)
    \/ UpdateVolatileEnd(VolatileSubjects, EffectTexts)

SpecVolatile == Init /\ [][NextVolatile]_vars

\* the text without a caused-by prefix, in lower case, without spaces, dashes
\* and apostrophes
Canonical(e) ==
    LET m == StrStripPrefix(e, PrefixMove)
        a == StrStripPrefix(e, PrefixAbility)
        clean == IF IsSome(m) THEN Unwrap(m) ELSE IF IsSome(a) THEN Unwrap(a) ELSE e
    IN  StrRemove(StrToLowercase(clean), {" ", "-", "'"})

\* the text matches an entry of the alias table
InTable(e) == VolatileFromProtocol(e) # "Other(" \o Spell(e) \o ")"

\* the two texts differ only by prefix, case and separators, or are aliases of
\* one table entry
SameEffect(e1, e2) ==
    \/ Canonical(e1) = Canonical(e2)
    \/ InTable(e1) /\ InTable(e2) /\ VolatileFromProtocol(e1) = VolatileFromProtocol(e2)

\* the volatile set of the entry the subject resolves to
VolatilesOf(b, pokemon) ==
    EntryAt(b, pokemon.player, FindPokemon(b, pokemon)).volatiles

\* a volatile-end follows a volatile-start on the same resolved subject with
\* a text of the same effect
EndAfterStart ==
    /\ last.kind = "VolatileStart"
    /\ last'.kind = "VolatileEnd"
    /\ last'.pokemon = last.pokemon
    /\ IsSome(FindPokemon(battle, last.pokemon))
    /\ SameEffect(last.effect, last'.effect)

\* C36: volatile-start(e) followed by volatile-end(e') on the same entry, for
\* texts e and e' that differ only by a caused-by prefix, letter case, spaces,
\* dashes or apostrophes or that are aliases of one table entry, leaves the
\* volatile that e started absent from the entry's set, for names of the alias
\* table and for names that match nothing in it.
C36_StartEndSymmetric ==
    [][EndAfterStart =>
          VolatileFromProtocol(last.effect) \notin VolatilesOf(battle, last.pokemon)']_vars

\* the same for the names of the alias table alone
TableNamesSymmetric ==
    [][(EndAfterStart /\ InTable(last.effect)) =>
          VolatileFromProtocol(last.effect) \notin VolatilesOf(battle, last.pokemon)']_vars

----------------------------------------------------------------------------
(* Active flags and slot pointers, checked under Spec.                     *)

\* some slot of the seat references roster index idx
Referenced(b, player, idx) ==
    \E s \in 1..Len(SlotsOf(b, player)) : SlotsOf(b, player)[s] = Some(idx)

\* C37: in every reachable state a roster entry's active flag is true if and
\* only if some active-slot pointer of its side references the entry, after
\* any sequence of switch, drag, faint, game-variant and snapshot calls.
C37_FlagsAgreeWithSlots ==
    \A player \in {"p1", "p2", "p3", "p4"} :
        \A i \in 1..Len(RosterOf(battle, player)) :
            RosterOf(battle, player)[i].active <=> Referenced(battle, player, i - 1)

----------------------------------------------------------------------------
(* SpecRoster: one Pokemon without a nickname on seat p1, introduced by a  *)
(* switch, whose species text details-change and forme-change messages     *)
(* rewrite; the roster is capped at MaxRoster entries.                     *)

MaxRoster == 3

RosterName == "Pikachu"
RosterSubjects == Subjects({"p1"}, {Some("a")}, {RosterName})

NextRoster ==
    \/ /\ Len(RosterOf(battle, "p1")) < MaxRoster
       /\ UpdateSwitch(RosterSubjects, {DetailsOf("Pikachu")}, {None})
    \/ UpdateDamage(RosterSubjects, {HpStatusParse("50/100 par")})
    \/ UpdateDetailsChange(RosterSubjects, {DetailsOf("Pikachu-Mega")}, {None})
    \/ UpdateFormeChange(RosterSubjects, {"Pikachu-Gmax"}, {None})

SpecRoster == Init /\ [][NextRoster]_vars

\* a switch has introduced the name on seat p1: under SpecRoster entries come
\* from switch messages naming RosterName alone
Introduced == RosterOf(battle, "p1") # <<>>

\* C38: once a switch has introduced subject name N on a side, every later
\* message naming N resolves to that same entry (the first of the roster) and
\* no later switch naming N has appended a second entry, also after
\* details-change or forme-change messages rewrote the entry's species.
C38_OneEntryPerPokemon ==
    Introduced =>
        /\ Len(RosterOf(battle, "p1")) = 1
        /\ \A p \in RosterSubjects : FindPokemon(battle, p) = Some(0)

----------------------------------------------------------------------------
(* The 8-bit arithmetic of boost and unboost, checked under SpecStages.    *)

\* the stage the last call should have produced, computed in the integers
ExactStage ==
    Clamp(obj_prev[call.stat]
              + (IF call.fn = "boost" THEN call.amount ELSE 0 - call.amount),
          MinStage, MaxStage)

\* C39: for every current stage in [-6, +6] and every signed 8-bit amount,
\* 127 and -128 included, boost and unboost return normally and leave the
\* mathematically clamped stage clamp(c + amount, -6, +6) (for unboost
\* clamp(c - amount, -6, +6)): no wrap-around and no abort.
C39_BoostNeverOverflows ==
    (call.fn \in {"boost", "unboost"} /\ InI8(call.amount)
         /\ MinStage <= obj_prev[call.stat] /\ obj_prev[call.stat] <= MaxStage)
        => /\ ~panicked
           /\ obj[call.stat] = ExactStage

----------------------------------------------------------------------------
(* Connection::reconnect (client/connection.rs).  obj is the frame of one  *)
(* call: the policy, the locals delay and attempt, the await point the     *)
(* call stands at, and the log of the waits slept and of the outcomes of   *)
(* the connection attempts.  Durations are whole seconds, the multiplier   *)
(* an integer-valued f64.                                                  *)

\* Duration::from_secs_f64: panics on a negative value
DurationFromSecsF64(secs) ==
    IF secs < 0 THEN [ok |-> FALSE, val |-> 0] ELSE [ok |-> TRUE, val |-> secs]

\* Ord::min on Duration
DurationMin(a, b) == IF a <= b THEN a ELSE b

\* reconnect up to the loop: delay = initial_delay, attempt = 1
ReconnectEnter(policy) ==
    [policy |-> policy, delay |-> policy.initial_delay, attempt |-> 1,
     pc |-> "loop", waits |-> <<>>, outcomes |-> <<>>]

\* the head of the loop: bail out past max_attempts, otherwise sleep(delay)
ReconnectLoopHead(f) ==
    IF IsSome(f.policy.max_attempts) /\ f.attempt > Unwrap(f.policy.max_attempts)
    THEN [frame |-> [f EXCEPT !.pc = "returned"], ret |-> Some("Err"), panic |-> FALSE]
    ELSE [frame |-> [f EXCEPT !.pc = "connect", !.waits = Append(@, f.delay)],
          ret |-> None, panic |-> FALSE]

\* the match on establish_connection's result
ReconnectMatch(f, connected) ==
    LET tried == [f EXCEPT !.outcomes = Append(@, connected)]
        next == DurationFromSecsF64(f.delay * f.policy.backoff_multiplier)
    IN  IF connected
        THEN [frame |-> [tried EXCEPT !.pc = "returned"], ret |-> Some("Ok"),
              panic |-> FALSE]
        ELSE IF ~next.ok
             THEN [frame |-> tried, ret |-> None, panic |-> TRUE]
             ELSE [frame |-> [tried EXCEPT !.pc = "loop",
                                           !.attempt = @ + 1,
                                           !.delay = DurationMin(next.val,
                                                                 f.policy.max_delay)],
                   ret |-> None, panic |-> FALSE]

\* one step of the call
ReconnectStep(r) ==
    /\ obj' = Some(r.frame)
    /\ obj_prev' = obj
    /\ ret' = r.ret
    /\ panicked' = r.panic
    /\ UNCHANGED <<battle, prev, last, overflow_checks, call>>

StepLoopHead ==
    /\ ~panicked
    /\ Unwrap(obj).pc = "loop"
    /\ ReconnectStep(ReconnectLoopHead(Unwrap(obj)))

StepEstablishConnection ==
    \E connected \in BOOLEAN :
        /\ ~panicked
        /\ Unwrap(obj).pc = "connect"
        /\ ReconnectStep(ReconnectMatch(Unwrap(obj), connected))

MaxAttempts == 3

ReconnectPolicies ==
    [max_attempts : {Some(n) : n \in 0..MaxAttempts},
     initial_delay : {1, 5},
     max_delay : {3, 4},
     backoff_multiplier : {-1, 1, 2}]

InitReconnect ==
    /\ battle = TrackedBattleNew
    /\ prev = TrackedBattleNew
    /\ last = [kind |-> "new"]
    /\ panicked = FALSE
    /\ overflow_checks = FALSE
    /\ \E policy \in ReconnectPolicies :
          /\ obj = Some(ReconnectEnter(policy))
          /\ call = [fn |-> "reconnect", policy |-> policy]
    /\ obj_prev = None
    /\ ret = None

NextReconnect ==
    \/ StepLoopHead
    \/ StepEstablishConnection

SpecReconnect == InitReconnect /\ [][NextReconnect]_vars

\* every sleep and every connection attempt completes
SpecReconnectFair == SpecReconnect /\ WF_vars(NextReconnect)

Frame == Unwrap(obj)
Limit == Unwrap(Frame.policy.max_attempts)
FailedAttempts == {k \in 1..Len(Frame.outcomes) : ~Frame.outcomes[k]}

\* the call has returned Ok after its first successful attempt, or an error
\* after exactly max_attempts failed ones
ReturnedAsStated ==
    IsSome(ret) =>
        \/ /\ ret = Some("Ok")
           /\ Frame.outcomes # <<>>
           /\ FailedAttempts = 1..(Len(Frame.outcomes) - 1)
        \/ /\ ret = Some("Err")
           /\ FailedAttempts = 1..Limit

\* each wait after the first is the one before it times the multiplier,
\* capped at max_delay
WaitsGrow ==
    \A k \in 1..(Len(Frame.waits) - 1) :
        Frame.waits[k + 1] = DurationMin(Frame.waits[k] * Frame.policy.backoff_multiplier,
                                         Frame.policy.max_delay)

\* C40: reconnect with max_attempts = Some(n) makes at most n attempts and
\* returns Ok after the first successful one or an error after exactly n
\* failed ones, without aborting; the wait before every attempt, the first
\* included, is at most max_delay, and successive waits grow by
\* backoff_multiplier until capped at max_delay.
C40_ReconnectBounded ==
    /\ ~panicked
    /\ Len(Frame.outcomes) <= Limit
    /\ ReturnedAsStated
    /\ \A k \in 1..Len(Frame.waits) : Frame.waits[k] <= Frame.policy.max_delay
    /\ WaitsGrow

\* the same for policies whose initial_delay is within max_delay and whose
\* multiplier is not negative
SanePolicy ==
    /\ Frame.policy.initial_delay <= Frame.policy.max_delay
    /\ Frame.policy.backoff_multiplier >= 0
ReconnectBoundedWhenSane == SanePolicy => C40_ReconnectBounded

\* the call returns (under SpecReconnectFair), unless it aborted
ReconnectTerminates == <>(IsSome(ret) \/ panicked)

====
